---------------------------- MODULE Spec2Model ----------------------------
(***************************************************************************)
(* Dubai event permit assistant: the fee calculator                        *)
(* (calculate_event_permit_cost, map_event_data_to_calculator_params,      *)
(* calculate_estimated_fees) of src/dubai_permit_bot/app.py, and its copy  *)
(* in src/dubai_permit_bot/calculator.py; and the conversation of app.py:  *)
(* the session state, the button handlers, the event details form and the  *)
(* save to the database.                                                   *)
(*                                                                         *)
(* CalcSpec applies the calculator to one record; Spec is the conversation *)
(* of one browser session, one action per script run.                      *)
(*                                                                         *)
(* Python values are modelled as tagged records [type, val], so that the   *)
(* isinstance checks and the TypeError/AttributeError outcomes of the code *)
(* can be told apart.  A dict is a function from its keys to values.       *)
(***************************************************************************)
EXTENDS Integers, Sequences, FiniteSets, TLC

VARIABLES
    event_data,   \* st.session_state.event_data: the event record
    params,       \* result of map_event_data_to_calculator_params, or None
    result,       \* result of calculate_event_permit_cost, or None
    fee,          \* last return value of calculate_estimated_fees, or None
    st_error,     \* messages shown with st.error, in order
    raised,       \* exception that escaped the last direct call, or "none"
    pc,           \* which call has been made on the record
    conversation_step,  \* st.session_state.conversation_step
    chat_history,       \* st.session_state.chat_history
    show_greeting,      \* st.session_state.show_greeting
    clicked,            \* the *_clicked flags of st.session_state
    form,         \* widget values of the event details form, or None
    connection,   \* what st.cache_resource holds for init_connection
    db,           \* the documents of the collection, in insertion order
    runs,         \* number of script runs of the session so far
    last_run      \* what the last script run handled

calc_vars == <<params, result, fee, st_error, raised, pc>>

session_vars == <<conversation_step, chat_history, show_greeting, clicked, form,
                  connection, db, runs, last_run>>

vars == <<event_data, params, result, fee, st_error, raised, pc,
          conversation_step, chat_history, show_greeting, clicked, form,
          connection, db, runs, last_run>>

----------------------------------------------------------------------------
(* Bounds of the input space *)

MaxDays == 5
MaxPerformers == 1
MaxRuns == 7

----------------------------------------------------------------------------
(* Python values *)

PyStr(s) == [type |-> "str", val |-> s]
PyInt(n) == [type |-> "int", val |-> n]
PyList(l) == [type |-> "list", val |-> l]
PyDict(d) == [type |-> "dict", val |-> d]
None == [type |-> "NoneType", val |-> "None"]

\* dict.get(key, default)
get(d, key, default) == IF key \in DOMAIN d THEN d[key] ELSE default

\* an int supports the arithmetic and comparisons the calculator uses;
\* a str or None makes them raise TypeError
IsNumeric(v) == v.type = "int"

----------------------------------------------------------------------------
(* Strings: str.lower(), the substring test `a in b`, str(list) *)

ascii_uppercase == "ABCDEFGHIJKLMNOPQRSTUVWXYZ"
ascii_lowercase == "abcdefghijklmnopqrstuvwxyz"

\* upper-case letter -> lower-case letter (built once)
char_lower ==
    [c \in {SubSeq(ascii_uppercase, i, i) : i \in 1..Len(ascii_uppercase)} |->
        LET i == CHOOSE j \in 1..Len(ascii_uppercase) : SubSeq(ascii_uppercase, j, j) = c
        IN  SubSeq(ascii_lowercase, i, i)] @@ <<>>

\* the characters i..j of s, each upper-case letter replaced by its lower-case one
RECURSIVE lower_range(_, _, _)
lower_range(s, i, j) ==
    IF i > j THEN ""
    ELSE IF i = j
    THEN LET c == SubSeq(s, i, i)
         IN  IF c \in DOMAIN char_lower THEN char_lower[c] ELSE c
    ELSE LET mid == (i + j) \div 2
         IN  lower_range(s, i, mid) \o lower_range(s, mid + 1, j)

\* s.lower()
lower(s) == lower_range(s, 1, Len(s))

\* sub in s, for strings
Contains(sub, s) ==
    \E i \in 1..(Len(s) - Len(sub) + 1) : SubSeq(s, i, i + Len(sub) - 1) = sub

RECURSIVE join_reprs(_, _)
join_reprs(l, i) ==
    IF i > Len(l) THEN ""
    ELSE (IF i > 1 THEN ", " ELSE "") \o "'" \o l[i] \o "'" \o join_reprs(l, i + 1)

\* str(l) for a list of strings without quotes or escapes
str_of_list(l) == "[" \o join_reprs(l, 1) \o "]"

\* any(x == l[i]) : `x in l` for a list
InList(x, l) == \E i \in 1..Len(l) : l[i] = x

----------------------------------------------------------------------------
(* Catalogs *)

TICKETED_EVENT_TYPES ==
    << "Exhibition",
       "Conference",
       "Conference + Exhibition",
       "Product Launch/Forum/Seminar/Summit",
       "Exhibition/Product Launch + Conference/Forum/Seminar/Summit",
       "Award Ceremony",
       "Award Ceremony + Conference",
       "Award Ceremony + Conference + Exhibition",
       "DJ Event",
       "Musical Event",
       "Comedy Show" >>

NON_TICKETED_EVENT_TYPES ==
    << "Exhibition",
       "Conference/Forum/Meeting/Summit",
       "Conference + Exhibition",
       "Exhibition/Product Launch + Conference/Forum/Seminar/Summit",
       "Award Ceremony",
       "Award Ceremony + Conference",
       "Award Ceremony + Conference + Exhibition",
       "DJ Event",
       "Musical Event",
       "Comedy Show" >>

DUBAI_VENUES ==
    << "Dubai Hotel 1",
       "Dubai Hotel 2",
       "Dubai Convention Center",
       "Emirates Palace",
       "Burj Al Arab",
       "Atlantis The Palm",
       "Other" >>


----------------------------------------------------------------------------
(* map_event_data_to_calculator_params *)

\* The part of the mapping that reads event_types: the category and the
\* exhibition / conference / award flags.  event_types is a list of strings,
\* or a single string, which the code wraps into a list.
event_type_params(event_types_value) ==
    LET event_types == IF event_types_value.type = "str"
                       THEN <<event_types_value.val>>
                       ELSE event_types_value.val
        entertainment_keywords == {"DJ Event", "Musical Event", "Comedy Show"}
        is_entertainment == \E keyword \in entertainment_keywords : InList(keyword, event_types)
        listing == lower(str_of_list(event_types))
        is_sports_charity ==
            \E keyword \in {"sports", "charity", "marathon", "tournament"} : Contains(keyword, listing)
        lowered(i) == lower(event_types[i])
    IN  [ event_type |-> IF is_sports_charity THEN "sports_charity"
                         ELSE IF is_entertainment THEN "entertainment"
                         ELSE "business",
          has_exhibition |-> \E i \in 1..Len(event_types) : Contains("exhibition", lowered(i)),
          has_conference |-> \E i \in 1..Len(event_types) :
                                \E keyword \in {"conference", "forum", "seminar", "summit", "meeting"} :
                                    Contains(keyword, lowered(i)),
          has_award_ceremony |-> \E i \in 1..Len(event_types) : Contains("award", lowered(i)) ]

\* 'hotel' if 'hotel' in venue.lower() else 'other'
venue_type_of(venue) == IF Contains("hotel", lower(venue)) THEN "hotel" ELSE "other"

\* ticketing_type in ['paid_ticketed', 'free_ticketed']
is_ticketed_of(ticketing_type) == ticketing_type \in {"paid_ticketed", "free_ticketed"}

----------------------------------------------------------------------------
(* The event-type inputs of the model *)

\* every catalog entry, two strings that match no keyword of the mapping,
\* and one that matches a sports/charity keyword
EventTypeNames ==
    << "Exhibition",
       "Conference",
       "Conference/Forum/Meeting/Summit",
       "Conference + Exhibition",
       "Product Launch/Forum/Seminar/Summit",
       "Exhibition/Product Launch + Conference/Forum/Seminar/Summit",
       "Award Ceremony",
       "Award Ceremony + Conference",
       "Award Ceremony + Conference + Exhibition",
       "DJ Event",
       "Musical Event",
       "Comedy Show",
       "Wedding",
       "Gala Dinner",
       "Charity Marathon" >>

\* selections of one or two event types (a multiselect holds no duplicates;
\* the mapping only asks whether some element matches, so order is immaterial)
EventTypeLists ==
    {<<EventTypeNames[i]>> : i \in 1..Len(EventTypeNames)}
        \cup {<<EventTypeNames[ij[1]], EventTypeNames[ij[2]]>> :
                 ij \in {x \in (1..Len(EventTypeNames)) \X (1..Len(EventTypeNames)) : x[1] < x[2]}}

\* event_types as the calculator may receive it: a list (empty when the key
\* is absent) or a single string
EventTypeValues ==
    {PyList(l) : l \in {<<>>} \cup EventTypeLists}
        \cup {PyStr(EventTypeNames[i]) : i \in 1..Len(EventTypeNames)}

\* event_type_params, evaluated once for every event_types value of the model
EventTypeParams == [v \in EventTypeValues |-> event_type_params(v)] @@ <<>>

map_event_types(event_types_value) ==
    IF event_types_value \in DOMAIN EventTypeParams
    THEN EventTypeParams[event_types_value]
    ELSE event_type_params(event_types_value)

\* The whole mapping.  event_data is the dict itself (its keys to values);
\* the day and performer counts are passed on as they are, whatever their type.
map_event_data_to_calculator_params(event_data_dict) ==
    LET types == map_event_types(get(event_data_dict, "event_types", PyList(<<>>)))
    IN  [ event_type |-> types.event_type,
          is_ticketed |-> is_ticketed_of(get(event_data_dict, "ticketing_type", "non_ticketed")),
          venue_type |-> venue_type_of(get(event_data_dict, "venue", "")),
          num_days |-> get(event_data_dict, "no_of_days", PyInt(1)),
          num_performers |-> get(event_data_dict, "no_of_performers", PyInt(0)),
          is_urgent |-> get(event_data_dict, "is_urgent", FALSE),
          is_amendment |-> get(event_data_dict, "is_amendment", FALSE),
          has_exhibition |-> types.has_exhibition,
          has_conference |-> types.has_conference,
          has_award_ceremony |-> types.has_award_ceremony ]

----------------------------------------------------------------------------
(* calculate_event_permit_cost *)

\* 'urgent_fee': 500 if is_urgent else 0
urgent_fee_of(is_urgent) == IF is_urgent THEN 500 ELSE 0

\* Mutant: the 520 branch no longer asks for an amendment
amendment_fee_not_guarded(is_ticketed, is_amendment) ==
    IF is_amendment /\ is_ticketed THEN 800
    ELSE IF ~is_ticketed THEN 520
    ELSE 0

\* 'amendment_fee': 800 if is_amendment else 520 if (not is_ticketed and is_amendment) else 0
amendment_fee_of(is_ticketed, is_amendment) ==
    IF is_amendment THEN 800
    ELSE IF (~is_ticketed /\ is_amendment) THEN 520
    ELSE 0

\* the cost components as first initialised
initial_cost_components(p) ==
    [ base_fee |-> 0,
      per_day_fee |-> 0,
      performer_fee |-> 0,
      e_permit_fee |-> 200,
      knowledge_dirham |-> 10,
      innovation_dirham |-> 10,
      dtcm_management_fee |-> IF p.event_type = "entertainment" THEN 500 ELSE 0,
      ded_fee |-> IF p.event_type = "business" THEN 50 ELSE 0,
      urgent_fee |-> urgent_fee_of(p.is_urgent),
      amendment_fee |-> amendment_fee_of(p.is_ticketed, p.is_amendment) ]

\* Mutant: a ticketed conference is charged the non-ticketed conference rate
business_base_fee_conference_250(is_ticketed, has_exhibition, has_conference) ==
    IF has_exhibition /\ has_conference THEN 1500
    ELSE IF has_exhibition THEN 1000
    ELSE IF has_conference THEN 250
    ELSE 1000

\* Mutant: the default branches are missing, so the base fee stays 0
business_base_fee_no_default(is_ticketed, has_exhibition, has_conference) ==
    IF has_exhibition /\ has_conference THEN 1500
    ELSE IF has_exhibition THEN 1000
    ELSE IF has_conference THEN (IF is_ticketed THEN 1000 ELSE 250)
    ELSE 0

\* base fee of a business event
business_base_fee(is_ticketed, has_exhibition, has_conference) ==
    IF is_ticketed
    THEN IF has_exhibition /\ has_conference THEN 1500
         ELSE IF has_exhibition THEN 1000
         ELSE IF has_conference THEN 1000
         ELSE 1000
    ELSE IF has_exhibition /\ has_conference THEN 1500
         ELSE IF has_exhibition THEN 1000
         ELSE IF has_conference THEN 250
         ELSE 1000

\* "Calculate base fee based on event type and ticketing status"
with_base_fee(p, cc) ==
    IF p.event_type = "business"
    THEN [cc EXCEPT !.base_fee = business_base_fee(p.is_ticketed, p.has_exhibition, p.has_conference)]
    ELSE IF p.event_type = "entertainment"
    THEN IF p.is_ticketed
         THEN [cc EXCEPT !.base_fee = 800]
         ELSE [cc EXCEPT !.base_fee = IF p.venue_type = "hotel" THEN 800 ELSE 500,
                         !.performer_fee = IF p.venue_type = "hotel"
                                           THEN 750 * p.num_performers.val
                                           ELSE 350 * p.num_performers.val]
    ELSE IF p.event_type = "sports_charity"
    THEN [cc EXCEPT !.base_fee = 0]
    ELSE cc

\* Mutant: the first day is not taken off
per_day_fee_every_day(event_type, is_ticketed, venue_type, num_days) ==
    IF event_type = "entertainment" /\ ~is_ticketed
    THEN IF venue_type = "hotel" THEN 800 * num_days ELSE 500 * num_days
    ELSE 800 * num_days

\* Mutant: the venue day rate of a non-ticketed entertainment event is
\* charged for the days after the first only
per_day_fee_first_day_free(event_type, is_ticketed, venue_type, num_days) ==
    IF event_type = "entertainment" /\ ~is_ticketed
    THEN IF venue_type = "hotel" THEN 800 * (num_days - 1) ELSE 500 * (num_days - 1)
    ELSE IF num_days > 1 THEN 800 * (num_days - 1) ELSE 0

\* Mutant: only ticketed events are charged for extra days
per_day_fee_ticketed_only(event_type, is_ticketed, venue_type, num_days) ==
    IF is_ticketed /\ num_days > 1 THEN 800 * (num_days - 1) ELSE 0

\* "Calculate per day fee"
per_day_fee_of(event_type, is_ticketed, venue_type, num_days) ==
    IF event_type = "entertainment" /\ ~is_ticketed
    THEN IF venue_type = "hotel" THEN 800 * num_days ELSE 500 * num_days
    ELSE IF num_days > 1 THEN 800 * (num_days - 1) ELSE 0

\* "Special cases for combined events": the base fee of a business event with
\* an award ceremony
award_base_fee(p, cc) ==
    LET fixed == cc.e_permit_fee + cc.knowledge_dirham + cc.innovation_dirham
    IN  IF p.is_ticketed
        THEN IF p.has_conference /\ p.has_exhibition THEN 3070 - fixed
             ELSE IF p.has_conference THEN 2570 - fixed
             ELSE 1520 - fixed
        ELSE IF p.venue_type = "hotel"
             THEN IF p.has_conference /\ p.has_exhibition THEN 3820 - cc.performer_fee - fixed
                  ELSE IF p.has_conference THEN 2790 - cc.performer_fee - fixed
                  ELSE 2270 - cc.performer_fee - fixed
             ELSE IF p.has_conference /\ p.has_exhibition THEN 2090
                  ELSE IF p.has_conference THEN 2090 - cc.performer_fee - fixed
                  ELSE 1570 - cc.performer_fee - fixed

\* Mutant: the award packages are applied to events of every category
with_combined_events_any_category(p, cc) ==
    IF p.has_award_ceremony
    THEN [cc EXCEPT !.base_fee = award_base_fee(p, cc)]
    ELSE cc

with_combined_events(p, cc) ==
    IF p.has_award_ceremony /\ p.event_type = "business"
    THEN [cc EXCEPT !.base_fee = award_base_fee(p, cc)]
    ELSE cc

\* the cost components at the end of the calculation
cost_components_of(p) ==
    LET c1 == with_base_fee(p, initial_cost_components(p))
        c2 == [c1 EXCEPT !.per_day_fee =
                  per_day_fee_of(p.event_type, p.is_ticketed, p.venue_type, p.num_days.val)]
    IN  with_combined_events(p, c2)

RECURSIVE sum_over(_, _)
sum_over(f, keys) ==
    IF keys = {} THEN 0
    ELSE LET k == CHOOSE x \in keys : TRUE
         IN  f[k] + sum_over(f, keys \ {k})

\* sum(cost_components.values())
sum_values(cost_components) == sum_over(cost_components, DOMAIN cost_components)

\* Mutant: the additional-days note is only written for ticketed events
calculation_notes_days_note_ticketed_only(p, cc) ==
    LET num_days == p.num_days.val
        num_performers == p.num_performers.val
    IN  (IF num_days > 1 /\ p.is_ticketed
         THEN << "Added " \o ToString(cc.per_day_fee) \o " AED for "
                   \o ToString(num_days - 1) \o " additional day(s)" >>
         ELSE <<>>)
        \o (IF num_performers > 0 /\ p.event_type = "entertainment" /\ ~p.is_ticketed
            THEN << "Added " \o ToString(cc.performer_fee) \o " AED for "
                      \o ToString(num_performers) \o " performer(s) at "
                      \o p.venue_type \o " venue" >>
            ELSE <<>>)
        \o (IF p.is_urgent THEN << "Added 500 AED urgent processing fee" >> ELSE <<>>)
        \o (IF p.is_amendment
            THEN << "Added " \o ToString(cc.amendment_fee) \o " AED amendment fee" >>
            ELSE <<>>)

\* "Add calculation notes"
calculation_notes_of(p, cc) ==
    LET num_days == p.num_days.val
        num_performers == p.num_performers.val
    IN  (IF num_days > 1 /\ (p.event_type # "entertainment" \/ p.is_ticketed)
         THEN << "Added " \o ToString(cc.per_day_fee) \o " AED for "
                   \o ToString(num_days - 1) \o " additional day(s)" >>
         ELSE <<>>)
        \o (IF num_performers > 0 /\ p.event_type = "entertainment" /\ ~p.is_ticketed
            THEN << "Added " \o ToString(cc.performer_fee) \o " AED for "
                      \o ToString(num_performers) \o " performer(s) at "
                      \o p.venue_type \o " venue" >>
            ELSE <<>>)
        \o (IF p.is_urgent THEN << "Added 500 AED urgent processing fee" >> ELSE <<>>)
        \o (IF p.is_amendment
            THEN << "Added " \o ToString(cc.amendment_fee) \o " AED amendment fee" >>
            ELSE <<>>)

\* The calculator fails with TypeError when a count is not a number: the
\* comparisons num_days > 1 and num_performers > 0 raise it, and so does the
\* sum over a component that became a repeated string (800 * "3").
raises_TypeError(p) == ~IsNumeric(p.num_days) \/ ~IsNumeric(p.num_performers)

\* Mutant: the total is summed before the combined-events step rewrites the
\* base fee
calculate_event_permit_cost_early_total(p) ==
    LET c1 == with_base_fee(p, initial_cost_components(p))
        c2 == [c1 EXCEPT !.per_day_fee =
                  per_day_fee_of(p.event_type, p.is_ticketed, p.venue_type, p.num_days.val)]
        cost_components == with_combined_events(p, c2)
    IN  [ total_cost |-> sum_values(c2),
          cost_breakdown |-> cost_components,
          calculation_notes |-> calculation_notes_of(p, cost_components) ]

\* Mutant: the calculator reads the session: once an application has been
\* saved, the event counts as an amendment
calculate_event_permit_cost_reads_session(p) ==
    LET cost_components ==
            cost_components_of([p EXCEPT !.is_amendment = @ \/ Len(db) > 0])
    IN  [ total_cost |-> sum_values(cost_components),
          cost_breakdown |-> cost_components,
          calculation_notes |-> calculation_notes_of(p, cost_components) ]

\* The returned breakdown, for numeric counts
calculate_event_permit_cost(p) ==
    LET cost_components == cost_components_of(p)
    IN  [ total_cost |-> sum_values(cost_components),
          cost_breakdown |-> cost_components,
          calculation_notes |-> calculation_notes_of(p, cost_components) ]

----------------------------------------------------------------------------
(* calculate_estimated_fees *)

\* What the body of the try block does: the value it returns, or the
\* exception it raises.  The first statement calls event_data.get, which only
\* a dict has; the isinstance check comes after it.
estimated_fees_try(event_data_value) ==
    IF event_data_value.type # "dict"
    THEN [raised |-> "AttributeError"]
    ELSE IF event_data_value.type # "dict"
    THEN [raised |-> "ValueError"]
    ELSE LET p == map_event_data_to_calculator_params(event_data_value.val)
         IN  IF raises_TypeError(p)
             THEN [raised |-> "TypeError"]
             ELSE [raised |-> "none", value |-> calculate_event_permit_cost(p).total_cost]

\* Mutant: only (ValueError, TypeError) is caught
calculate_estimated_fees_no_catch_all(event_data_value) ==
    LET outcome == estimated_fees_try(event_data_value)
    IN  IF outcome.raised = "none"
        THEN [fee |-> outcome.value, st_error |-> <<>>, raised |-> "none"]
        ELSE IF outcome.raised \in {"ValueError", "TypeError"}
        THEN [fee |-> 0, st_error |-> <<"Invalid event data for fee calculation">>, raised |-> "none"]
        ELSE [fee |-> None, st_error |-> <<>>, raised |-> outcome.raised]

\* The except clauses: (ValueError, TypeError), then Exception
calculate_estimated_fees(event_data_value) ==
    LET outcome == estimated_fees_try(event_data_value)
    IN  IF outcome.raised = "none"
        THEN [fee |-> outcome.value, st_error |-> <<>>, raised |-> "none"]
        ELSE IF outcome.raised \in {"ValueError", "TypeError"}
        THEN [fee |-> 0, st_error |-> <<"Invalid event data for fee calculation">>, raised |-> "none"]
        ELSE [fee |-> 0, st_error |-> <<"Error calculating fees">>, raised |-> "none"]

----------------------------------------------------------------------------
(* calculator.py: the stand-alone copy of the calculator, statement by      *)
(* statement on the dict cost_components                                    *)

\* Mutant: the copy has no DED fee
calculator_cost_components_no_ded_fee(p) ==
    [ base_fee |-> 0,
      per_day_fee |-> 0,
      performer_fee |-> 0,
      e_permit_fee |-> 200,
      knowledge_dirham |-> 10,
      innovation_dirham |-> 10,
      dtcm_management_fee |-> IF p.event_type = "entertainment" THEN 500 ELSE 0,
      ded_fee |-> 0,
      urgent_fee |-> IF p.is_urgent THEN 500 ELSE 0,
      amendment_fee |-> IF p.is_amendment THEN 800
                        ELSE IF ~p.is_ticketed /\ p.is_amendment THEN 520
                        ELSE 0 ]

\* "Initialize cost components"
calculator_cost_components(p) ==
    [ base_fee |-> 0,
      per_day_fee |-> 0,
      performer_fee |-> 0,
      e_permit_fee |-> 200,
      knowledge_dirham |-> 10,
      innovation_dirham |-> 10,
      dtcm_management_fee |-> IF p.event_type = "entertainment" THEN 500 ELSE 0,
      ded_fee |-> IF p.event_type = "business" THEN 50 ELSE 0,
      urgent_fee |-> IF p.is_urgent THEN 500 ELSE 0,
      amendment_fee |-> IF p.is_amendment THEN 800
                        ELSE IF ~p.is_ticketed /\ p.is_amendment THEN 520
                        ELSE 0 ]

\* cost_components[key] = value
calculator_assign(cc, key, value) == [cc EXCEPT ![key] = value]

\* "Calculate base fee based on event type and ticketing status"
calculator_base_fee_step(p, cc) ==
    CASE p.event_type = "business" ->
            calculator_assign(cc, "base_fee",
                IF p.is_ticketed
                THEN (IF p.has_exhibition /\ p.has_conference THEN 1500
                      ELSE IF p.has_exhibition THEN 1000
                      ELSE IF p.has_conference THEN 1000
                      ELSE 1000)
                ELSE (IF p.has_exhibition /\ p.has_conference THEN 1500
                      ELSE IF p.has_exhibition THEN 1000
                      ELSE IF p.has_conference THEN 250
                      ELSE 1000))
      [] p.event_type = "entertainment" /\ p.is_ticketed ->
            calculator_assign(cc, "base_fee", 800)
      [] p.event_type = "entertainment" /\ ~p.is_ticketed ->
            calculator_assign(
                calculator_assign(cc, "base_fee", IF p.venue_type = "hotel" THEN 800 ELSE 500),
                "performer_fee",
                IF p.venue_type = "hotel"
                THEN 750 * p.num_performers.val
                ELSE 350 * p.num_performers.val)
      [] p.event_type = "sports_charity" ->
            calculator_assign(cc, "base_fee", 0)
      [] OTHER -> cc

\* "Calculate per day fee"
calculator_per_day_fee_step(p, cc) ==
    calculator_assign(cc, "per_day_fee",
        IF p.event_type = "entertainment" /\ ~p.is_ticketed
        THEN (IF p.venue_type = "hotel" THEN 800 * p.num_days.val ELSE 500 * p.num_days.val)
        ELSE (IF p.num_days.val > 1 THEN 800 * (p.num_days.val - 1) ELSE 0))

\* "Special cases for combined events"
calculator_combined_events_step(p, cc) ==
    IF ~p.has_award_ceremony \/ p.event_type # "business" THEN cc
    ELSE calculator_assign(cc, "base_fee",
        IF p.is_ticketed
        THEN (IF p.has_conference /\ p.has_exhibition
              THEN 3070 - cc.e_permit_fee - cc.knowledge_dirham - cc.innovation_dirham
              ELSE IF p.has_conference
              THEN 2570 - cc.e_permit_fee - cc.knowledge_dirham - cc.innovation_dirham
              ELSE 1520 - cc.e_permit_fee - cc.knowledge_dirham - cc.innovation_dirham)
        ELSE IF p.venue_type = "hotel"
        THEN (IF p.has_conference /\ p.has_exhibition
              THEN 3820 - cc.performer_fee - cc.e_permit_fee - cc.knowledge_dirham
                       - cc.innovation_dirham
              ELSE IF p.has_conference
              THEN 2790 - cc.performer_fee - cc.e_permit_fee - cc.knowledge_dirham
                       - cc.innovation_dirham
              ELSE 2270 - cc.performer_fee - cc.e_permit_fee - cc.knowledge_dirham
                       - cc.innovation_dirham)
        ELSE (IF p.has_conference /\ p.has_exhibition
              THEN 2090
              ELSE IF p.has_conference
              THEN 2090 - cc.performer_fee - cc.e_permit_fee - cc.knowledge_dirham
                       - cc.innovation_dirham
              ELSE 1570 - cc.performer_fee - cc.e_permit_fee - cc.knowledge_dirham
                       - cc.innovation_dirham))

\* "Prepare breakdown" and "Add calculation notes"
calculator_breakdown(p, cc) ==
    [ total_cost |-> sum_values(cc),
      cost_breakdown |-> cc,
      calculation_notes |->
          (IF p.num_days.val > 1 /\ (p.event_type # "entertainment" \/ p.is_ticketed)
           THEN << "Added " \o ToString(cc.per_day_fee) \o " AED for "
                     \o ToString(p.num_days.val - 1) \o " additional day(s)" >>
           ELSE <<>>)
          \o (IF p.num_performers.val > 0 /\ p.event_type = "entertainment" /\ ~p.is_ticketed
              THEN << "Added " \o ToString(cc.performer_fee) \o " AED for "
                        \o ToString(p.num_performers.val) \o " performer(s) at "
                        \o p.venue_type \o " venue" >>
              ELSE <<>>)
          \o (IF p.is_urgent THEN << "Added 500 AED urgent processing fee" >> ELSE <<>>)
          \o (IF p.is_amendment
              THEN << "Added " \o ToString(cc.amendment_fee) \o " AED amendment fee" >>
              ELSE <<>>) ]

\* calculate_event_permit_cost of calculator.py, for numeric counts
calculator_calculate_event_permit_cost(p) ==
    calculator_breakdown(p,
        calculator_combined_events_step(p,
            calculator_per_day_fee_step(p,
                calculator_base_fee_step(p, calculator_cost_components(p)))))

\* the part of the mapping of calculator.py that reads event_types
calculator_event_type_params(event_types_value) ==
    LET event_types == IF event_types_value.type = "str"
                       THEN <<event_types_value.val>>
                       ELSE event_types_value.val
        listing == lower(str_of_list(event_types))
    IN  [ event_type |->
              IF \E keyword \in {"sports", "charity", "marathon", "tournament"} :
                    Contains(keyword, listing)
              THEN "sports_charity"
              ELSE IF \E keyword \in {"DJ Event", "Musical Event", "Comedy Show"} :
                         \E i \in 1..Len(event_types) : event_types[i] = keyword
              THEN "entertainment"
              ELSE "business",
          has_exhibition |->
              \E i \in 1..Len(event_types) : Contains("exhibition", lower(event_types[i])),
          has_conference |->
              \E i \in 1..Len(event_types) :
                  \E keyword \in {"conference", "forum", "seminar", "summit", "meeting"} :
                      Contains(keyword, lower(event_types[i])),
          has_award_ceremony |->
              \E i \in 1..Len(event_types) : Contains("award", lower(event_types[i])) ]

\* calculator_event_type_params, evaluated once for every event_types value
\* of the model
CalculatorEventTypeParams ==
    [v \in EventTypeValues |-> calculator_event_type_params(v)] @@ <<>>

\* map_event_data_to_calculator_params of calculator.py
calculator_map_event_data_to_calculator_params(event_data_dict) ==
    LET event_types_value == get(event_data_dict, "event_types", PyList(<<>>))
        types == IF event_types_value \in DOMAIN CalculatorEventTypeParams
                 THEN CalculatorEventTypeParams[event_types_value]
                 ELSE calculator_event_type_params(event_types_value)
        ticketing_type == get(event_data_dict, "ticketing_type", "non_ticketed")
        venue == get(event_data_dict, "venue", "")
    IN  [ event_type |-> types.event_type,
          is_ticketed |-> ticketing_type \in {"paid_ticketed", "free_ticketed"},
          venue_type |-> IF Contains("hotel", lower(venue)) THEN "hotel" ELSE "other",
          num_days |-> get(event_data_dict, "no_of_days", PyInt(1)),
          num_performers |-> get(event_data_dict, "no_of_performers", PyInt(0)),
          is_urgent |-> get(event_data_dict, "is_urgent", FALSE),
          is_amendment |-> get(event_data_dict, "is_amendment", FALSE),
          has_exhibition |-> types.has_exhibition,
          has_conference |-> types.has_conference,
          has_award_ceremony |-> types.has_award_ceremony ]

----------------------------------------------------------------------------
(* The records the calculator is applied to *)

TicketingTypes == {"paid_ticketed", "free_ticketed", "non_ticketed"}

\* one hotel venue and one other venue of DUBAI_VENUES
VenueInputs == {DUBAI_VENUES[1], DUBAI_VENUES[5]}

\* complete records with valid values
ValidRecords ==
    [ event_types : {PyList(l) : l \in EventTypeLists},
      ticketing_type : TicketingTypes,
      venue : VenueInputs,
      no_of_days : {PyInt(n) : n \in 1..MaxDays},
      no_of_performers : {PyInt(n) : n \in 0..MaxPerformers},
      is_urgent : BOOLEAN,
      is_amendment : BOOLEAN ]

\* records that leave keys out, so that the defaults of dict.get apply
TypesOnlyRecords == [ event_types : EventTypeValues ]

TypesAndTicketingRecords == [ event_types : EventTypeValues, ticketing_type : TicketingTypes ]

\* a count that is not a number
NonNumeric == {PyStr("3"), None}

\* records with a non-numeric day or performer count
NonNumericRecords ==
    { r \in [ event_types : {PyList(<<"Conference">>), PyList(<<"DJ Event">>), PyList(<<"Charity Marathon">>)},
              ticketing_type : {"paid_ticketed", "non_ticketed"},
              venue : VenueInputs,
              no_of_days : NonNumeric \cup {PyInt(2)},
              no_of_performers : NonNumeric \cup {PyInt(1)} ] :
        ~IsNumeric(r.no_of_days) \/ ~IsNumeric(r.no_of_performers) }

\* event_data that is not a mapping
NonMappings == {PyList(<<>>), None, PyStr("Conference")}

----------------------------------------------------------------------------
(* The calls *)

\* the calculator is called outside a conversation
NoSession ==
    /\ conversation_step = "greeting"
    /\ chat_history = <<>>
    /\ show_greeting = TRUE
    /\ clicked = {}
    /\ form = None
    /\ connection = [cached |-> FALSE, value |-> "None", st_error |-> <<>>]
    /\ db = <<>>
    /\ runs = 0
    /\ last_run = "none"

CalcInit ==
    /\ \/ \E r \in ValidRecords : event_data = PyDict(r)
       \/ \E r \in TypesOnlyRecords : event_data = PyDict(r)
       \/ \E r \in TypesAndTicketingRecords : event_data = PyDict(r)
       \/ event_data = PyDict(<<>>)
       \/ \E r \in NonNumericRecords : event_data = PyDict(r)
       \/ event_data \in NonMappings
    /\ params = None
    /\ result = None
    /\ fee = None
    /\ st_error = <<>>
    /\ raised = "none"
    /\ pc = "input"
    /\ NoSession

\* params = map_event_data_to_calculator_params(event_data)
MapParams ==
    /\ pc = "input"
    /\ IF event_data.type = "dict"
       THEN /\ params' = map_event_data_to_calculator_params(event_data.val)
            /\ pc' = "mapped"
            /\ UNCHANGED raised
       ELSE /\ raised' = "AttributeError"
            /\ pc' = "raised"
            /\ UNCHANGED params
    /\ UNCHANGED <<event_data, result, fee, st_error>>
    /\ UNCHANGED session_vars

\* result = calculate_event_permit_cost(**params)
CalculatePermitCost ==
    /\ pc = "mapped"
    /\ IF raises_TypeError(params)
       THEN /\ raised' = "TypeError"
            /\ pc' = "raised"
            /\ UNCHANGED result
       ELSE /\ result' = calculate_event_permit_cost(params)
            /\ pc' = "calculated"
            /\ UNCHANGED raised
    /\ UNCHANGED <<event_data, params, fee, st_error>>
    /\ UNCHANGED session_vars

\* fee = calculate_estimated_fees(event_data)
CalculateEstimatedFees ==
    /\ pc = "input"
    /\ LET r == calculate_estimated_fees(event_data)
       IN  /\ fee' = r.fee
           /\ st_error' = st_error \o r.st_error
           /\ raised' = r.raised
    /\ pc' = "estimated"
    /\ UNCHANGED <<event_data, params, result>>
    /\ UNCHANGED session_vars

CalcNext == MapParams \/ CalculatePermitCost \/ CalculateEstimatedFees

CalcSpec == CalcInit /\ [][CalcNext]_vars

----------------------------------------------------------------------------
(* Reading the record and the result in a state *)

\* event_data[key], or the default the mapping uses, for a dict record
Field(key, default) == get(event_data.val, key, default)

\* the record holds exactly this selection of event types
EventTypesAre(l) ==
    \/ Field("event_types", PyList(<<>>)) = PyList(l)
    \/ Len(l) = 1 /\ Field("event_types", PyList(<<>>)) = PyStr(l[1])

Ticketed == Field("ticketing_type", "non_ticketed") \in {"paid_ticketed", "free_ticketed"}
Days == Field("no_of_days", PyInt(1)).val
Performers == Field("no_of_performers", PyInt(0)).val
Urgent == Field("is_urgent", FALSE)
Amendment == Field("is_amendment", FALSE)
AtHotel == Field("venue", "") \in {DUBAI_VENUES[1], DUBAI_VENUES[2]}

\* calculate_event_permit_cost has returned for the mapped record
Calculated == pc = "calculated"

Max(a, b) == IF a >= b THEN a ELSE b

\* the first day of an event is covered by the base fee
IncludedDays == 1

----------------------------------------------------------------------------
(* Strings of the conversation: str.strip(), str.title(), f"{n:,}",       *)
(* date.isoformat()                                                        *)

RECURSIVE lstrip(_)
lstrip(s) ==
    IF Len(s) > 0 /\ SubSeq(s, 1, 1) = " " THEN lstrip(SubSeq(s, 2, Len(s))) ELSE s

RECURSIVE rstrip(_)
rstrip(s) ==
    IF Len(s) > 0 /\ SubSeq(s, Len(s), Len(s)) = " "
    THEN rstrip(SubSeq(s, 1, Len(s) - 1))
    ELSE s

\* s.strip(), for the blank the inputs use
strip(s) == rstrip(lstrip(s))

\* lower-case letter -> upper-case letter (built once)
char_upper ==
    [c \in {SubSeq(ascii_lowercase, i, i) : i \in 1..Len(ascii_lowercase)} |->
        LET i == CHOOSE j \in 1..Len(ascii_lowercase) : SubSeq(ascii_lowercase, j, j) = c
        IN  SubSeq(ascii_uppercase, i, i)] @@ <<>>

\* s.title(), for a single word
title(s) ==
    IF s = "" THEN ""
    ELSE LET first == SubSeq(s, 1, 1)
         IN  (IF first \in DOMAIN char_upper THEN char_upper[first] ELSE first)
                \o lower(SubSeq(s, 2, Len(s)))

\* three digits of a thousands group
zero_padded(n) ==
    IF n < 10 THEN "00" \o ToString(n)
    ELSE IF n < 100 THEN "0" \o ToString(n)
    ELSE ToString(n)

\* f"{n:,}" for n >= 0
RECURSIVE format_thousands(_)
format_thousands(n) ==
    IF n < 1000 THEN ToString(n)
    ELSE format_thousands(n \div 1000) \o "," \o zero_padded(n % 1000)

\* date.isoformat(); a date is the number of its day in one month
isoformat(d) == "2026-01-" \o (IF d < 10 THEN "0" ELSE "") \o ToString(d)

----------------------------------------------------------------------------
(* The session state and the chat *)

INDUSTRIES ==
    << "IT & Technology", "Healthcare", "Finance & Banking", "Education",
       "Entertainment", "Sports", "Real Estate", "Automotive", "Fashion & Beauty",
       "Food & Beverage", "Other" >>

\* the defaults of a new session (debug_mode, error_count and last_error are
\* never written afterwards and are left out)
init_session_state ==
    [ conversation_step |-> "greeting",
      event_data |-> PyDict(<<>>),
      chat_history |-> <<>>,
      show_greeting |-> TRUE ]

\* the session state at the start of a script run, with the cached database
\* connection and the collection; a run starts with no error on the page
session ==
    [ conversation_step |-> conversation_step,
      event_data |-> event_data,
      chat_history |-> chat_history,
      show_greeting |-> show_greeting,
      clicked |-> clicked,
      connection |-> connection,
      db |-> db,
      st_error |-> <<>>,
      fee |-> fee ]

\* chat_history.append(chat_entry); the timestamp of the entry is left out,
\* and messages are written without their emoji
add_to_chat(history, message, is_bot) ==
    Append(history, [message |-> message, is_bot |-> is_bot])

\* add_to_chat on the session
say(s, message, is_bot) ==
    [s EXCEPT !.chat_history = add_to_chat(@, message, is_bot)]

\* st.session_state.<flag> = False
reset_flag(s, flag) == [s EXCEPT !.clicked = @ \ {flag}]

\* event_data[key] = value
set_item(d, key, value) == PyDict((key :> value) @@ d.val)

\* the messages of the assistant, by their headline
greeting_message == "Hello! Welcome to Dubai Event Permit Business Support Assistant."
classification_message == "Perfect! I'll guide you through the government fee calculation process."
requirements_message == "**DOCUMENT REQUIREMENTS CHECKER**"
specialist_message == "**SPECIALIST CONSULTATION**"
general_message == "**GENERAL PERMIT INFORMATION**"
internal_message == "**INTERNAL EVENT IDENTIFIED**"
ticketing_message == "**EXTERNAL EVENT IDENTIFIED**"

----------------------------------------------------------------------------
(* save_to_mongodb *)

\* how the first connection attempt of the process ends
ConnectOutcomes == {"connected", "ServerSelectionTimeoutError", "ConnectionFailure"}

\* how insert_one ends
InsertOutcomes == {"inserted", "DuplicateKeyError", "WriteError", "Exception"}

SaveOutcomes == [connect : ConnectOutcomes, insert : InsertOutcomes]

\* nothing has called init_connection yet
not_cached == [cached |-> FALSE, value |-> "None", st_error |-> <<>>]

\* init_connection is wrapped in st.cache_resource: its body runs once, and
\* the value it returned then, None included, is what every later call gets,
\* together with the st.error it showed
init_connection(cache, outcome) ==
    IF cache.cached THEN cache
    ELSE IF outcome = "connected"
    THEN [cached |-> TRUE, value |-> "collection", st_error |-> <<>>]
    ELSE IF outcome = "ServerSelectionTimeoutError"
    THEN [cached |-> TRUE, value |-> "None",
          st_error |-> <<"Database connection timeout. Please check if MongoDB is running.">>]
    ELSE [cached |-> TRUE, value |-> "None",
          st_error |-> <<"Failed to connect to database. Please check your connection settings.">>]

\* str(ObjectId()) of the n-th inserted document: 24 hexadecimal digits
object_id(n) == "6549a1b2c3d4e5f6a7b8c9" \o (IF n < 10 THEN "0" ELSE "") \o ToString(n)

\* Mutant: the base fee alone is stored as the estimated fee
save_data_of_base_fee_only(event_data_dict) ==
    LET fee_result == calculate_event_permit_cost(
                          map_event_data_to_calculator_params(event_data_dict))
    IN  ("created_at" :> "datetime.now()")
            @@ ("estimated_fee" :> fee_result.cost_breakdown.base_fee)
            @@ ("fee_breakdown" :> fee_result.cost_breakdown)
            @@ ("app_version" :> "1.1")
            @@ event_data_dict

\* save_data as it is handed to insert_one
save_data_of(event_data_dict) ==
    LET fee_result == calculate_event_permit_cost(
                          map_event_data_to_calculator_params(event_data_dict))
    IN  ("created_at" :> "datetime.now()")
            @@ ("estimated_fee" :> fee_result.total_cost)
            @@ ("fee_breakdown" :> fee_result.cost_breakdown)
            @@ ("app_version" :> "1.1")
            @@ event_data_dict

\* the first of the required fields that is missing or empty, or "" if none
missing_required_field(save_data) ==
    IF "event_name" \notin DOMAIN save_data \/ save_data["event_name"] = ""
    THEN "event_name"
    ELSE IF "event_classification" \notin DOMAIN save_data
            \/ save_data["event_classification"] = ""
    THEN "event_classification"
    ELSE ""

\* Mutant: a document equal to one already in the collection is not inserted
\* again
insert_one_deduplicating(documents, save_data) ==
    IF \E i \in 1..Len(documents) :
          [k \in DOMAIN documents[i] \ {"_id"} |-> documents[i][k]] = save_data
    THEN documents
    ELSE Append(documents, ("_id" :> object_id(Len(documents) + 1)) @@ save_data)

\* collection.insert_one(save_data), when it succeeds.  The result always
\* carries the _id of the inserted document, so the branch for a missing
\* inserted_id is never taken.
insert_one(documents, save_data) ==
    Append(documents, ("_id" :> object_id(Len(documents) + 1)) @@ save_data)

\* what save_to_mongodb returns when it fails with these st.error messages
save_failed(conn, documents, messages) ==
    [application_id |-> None, st_error |-> messages, connection |-> conn, db |-> documents]

\* "Validate required fields" and "Insert into database"
insert_save_data(save_data, conn, documents, outcome) ==
    IF missing_required_field(save_data) # ""
    THEN save_failed(conn, documents,
                     <<"Data validation error: Required field missing: "
                          \o missing_required_field(save_data)>>)
    ELSE IF outcome.insert = "DuplicateKeyError"
    THEN save_failed(conn, documents, <<"Event with similar details already exists">>)
    ELSE IF outcome.insert = "WriteError"
    THEN save_failed(conn, documents, <<"Failed to save event data - database error">>)
    ELSE IF outcome.insert = "Exception"
    THEN save_failed(conn, documents, <<"Unexpected error while saving event data">>)
    ELSE [application_id |-> PyStr(object_id(Len(documents) + 1)),
          st_error |-> <<>>,
          connection |-> conn,
          db |-> insert_one(documents, save_data)]

\* save_to_mongodb once the collection is at hand
save_to_collection(event_data_value, conn, documents, outcome) ==
    IF conn.value = "None"
    THEN save_failed(conn, documents,
                     conn.st_error \o <<"Database connection not available">>)
    ELSE IF raises_TypeError(map_event_data_to_calculator_params(event_data_value.val))
    THEN save_failed(conn, documents, <<"Unexpected error while saving event data">>)
    ELSE insert_save_data(save_data_of(event_data_value.val), conn, documents, outcome)

\* The value returned (application_id), the st.error messages, the cache of
\* init_connection and the collection afterwards.  Every exception is caught
\* inside the function.
save_to_mongodb(event_data_value, cache, documents, outcome) ==
    IF DOMAIN event_data_value.val = {}
    THEN save_failed(cache, documents, <<"Data validation error: Event data is empty">>)
    ELSE save_to_collection(event_data_value, init_connection(cache, outcome.connect),
                            documents, outcome)

----------------------------------------------------------------------------
(* handle_button_clicks *)

\* the flags, in the order handle_button_clicks tests them
ClickFlags ==
    << "fee_calc_clicked", "requirements_clicked", "specialist_clicked",
       "general_clicked", "internal_clicked", "external_clicked",
       "calc_internal_clicked", "paid_ticketed_clicked", "free_ticketed_clicked",
       "non_ticketed_clicked", "save_app_clicked", "new_calc_clicked",
       "summary_clicked" >>

on_fee_calc_clicked(s) ==
    LET s1 == say(s, "I'd like to calculate government fees for my event", FALSE)
        s2 == say(s1, classification_message, TRUE)
    IN  reset_flag([s2 EXCEPT !.conversation_step = "event_classification",
                              !.show_greeting = FALSE],
                   "fee_calc_clicked")

on_requirements_clicked(s) ==
    reset_flag(say(say(s, "I want to check document requirements", FALSE),
                   requirements_message, TRUE),
               "requirements_clicked")

on_specialist_clicked(s) ==
    reset_flag(say(say(s, "I'd like to speak with a permit specialist", FALSE),
                   specialist_message, TRUE),
               "specialist_clicked")

\* Mutant: the handler of "General Questions" leaves its flag set
on_general_clicked_keeps_flag(s) ==
    say(say(s, "I have general permit questions", FALSE), general_message, TRUE)

on_general_clicked(s) ==
    reset_flag(say(say(s, "I have general permit questions", FALSE),
                   general_message, TRUE),
               "general_clicked")

on_internal_clicked(s) ==
    LET s1 == say(s, "Internal Event - Company/organizational event for employees only", FALSE)
        s2 == say(s1, internal_message, TRUE)
    IN  reset_flag([s2 EXCEPT !.event_data = set_item(@, "event_classification", "internal"),
                              !.conversation_step = "internal_event_info"],
                   "internal_clicked")

on_external_clicked(s) ==
    LET s1 == say(s, "External Event - Event with external guests, clients, or public attendance", FALSE)
        s2 == say(s1, ticketing_message, TRUE)
    IN  reset_flag([s2 EXCEPT !.event_data = set_item(@, "event_classification", "external"),
                              !.conversation_step = "external_ticketing"],
                   "external_clicked")

\* Mutant: the button of an internal event goes straight to the results
on_calc_internal_clicked_skips_form(s) ==
    LET s1 == say(s, "Yes, let's calculate the estimated fees", FALSE)
    IN  reset_flag([s1 EXCEPT !.conversation_step = "show_results"],
                   "calc_internal_clicked")

on_calc_internal_clicked(s) ==
    LET s1 == say(s, "Yes, let's calculate the estimated fees", FALSE)
    IN  reset_flag([s1 EXCEPT !.conversation_step = "collect_event_details"],
                   "calc_internal_clicked")

on_paid_ticketed_clicked(s) ==
    LET s1 == say(s, "Paid Ticketed - Admission fees/ticket sales", FALSE)
    IN  reset_flag([s1 EXCEPT !.event_data = set_item(@, "ticketing_type", "paid_ticketed"),
                              !.conversation_step = "collect_event_details"],
                   "paid_ticketed_clicked")

\* Mutant: the free-ticketed button also writes the classification again
on_free_ticketed_clicked_two_fields(s) ==
    LET s1 == say(s, "Free Ticketed - Controlled access with registration", FALSE)
    IN  reset_flag([s1 EXCEPT !.event_data =
                                  set_item(set_item(@, "ticketing_type", "free_ticketed"),
                                           "event_classification", "free_ticketed"),
                              !.conversation_step = "collect_event_details"],
                   "free_ticketed_clicked")

on_free_ticketed_clicked(s) ==
    LET s1 == say(s, "Free Ticketed - Controlled access with registration", FALSE)
    IN  reset_flag([s1 EXCEPT !.event_data = set_item(@, "ticketing_type", "free_ticketed"),
                              !.conversation_step = "collect_event_details"],
                   "free_ticketed_clicked")

on_non_ticketed_clicked(s) ==
    LET s1 == say(s, "Non-Ticketed - Open access with no registration", FALSE)
    IN  reset_flag([s1 EXCEPT !.event_data = set_item(@, "ticketing_type", "non_ticketed"),
                              !.conversation_step = "collect_event_details"],
                   "non_ticketed_clicked")

\* the session after save_to_mongodb has returned r
saved(s, r) ==
    [s EXCEPT !.connection = r.connection,
              !.db = r.db,
              !.st_error = @ \o r.st_error]

\* Mutant: nothing is written to the chat when the save fails
acknowledge_save_silent_failure(s, application_id) ==
    IF application_id # None /\ application_id.val # ""
    THEN say(s, "Application saved successfully! Reference ID: "
                   \o SubSeq(application_id.val, 1, 8), TRUE)
    ELSE s

\* the chat message for the application_id that save_to_mongodb returned
acknowledge_save(s, application_id) ==
    IF application_id # None /\ application_id.val # ""
    THEN say(s, "Application saved successfully! Reference ID: "
                   \o SubSeq(application_id.val, 1, 8), TRUE)
    ELSE say(s, "Failed to save application. Please try again.", TRUE)

\* the handler, given what save_to_mongodb returned
save_handled(s, r) ==
    reset_flag(acknowledge_save(saved(s, r), r.application_id), "save_app_clicked")

on_save_app_clicked(s, outcome) ==
    save_handled(s, save_to_mongodb(s.event_data, s.connection, s.db, outcome))

\* Mutant: the restart keeps the record
on_new_calc_clicked_keeps_record(s) ==
    LET s1 == [s EXCEPT !.conversation_step = "greeting",
                        !.show_greeting = TRUE]
    IN  reset_flag(say(s1, "Let's calculate fees for another event!", FALSE),
                   "new_calc_clicked")

on_new_calc_clicked(s) ==
    LET s1 == [s EXCEPT !.conversation_step = "greeting",
                        !.event_data = PyDict(<<>>),
                        !.show_greeting = TRUE]
    IN  reset_flag(say(s1, "Let's calculate fees for another event!", FALSE),
                   "new_calc_clicked")

\* "Calculate breakdown components"
summary_breakdown(event_data_dict) ==
    LET participants == get(event_data_dict, "no_of_participants", PyInt(0)).val
    IN  [ base_fee |->
              IF "event_classification" \in DOMAIN event_data_dict
                 /\ event_data_dict["event_classification"] = "internal"
              THEN 2000 ELSE 3000,
          participant_fee |->
              IF participants > 500 THEN 3000
              ELSE IF participants > 200 THEN 1500
              ELSE IF participants > 100 THEN 800
              ELSE 0,
          duration_fee |->
              Max(0, (get(event_data_dict, "no_of_days", PyInt(1)).val - 3) * 500),
          performer_fee |->
              get(event_data_dict, "no_of_performers", PyInt(0)).val * 200 ]

\* the f-string of the breakdown, without its line breaks and indentation
breakdown_message(b, estimated_fee) ==
    "**DETAILED FEE BREAKDOWN**"
        \o " Base Fee: AED " \o format_thousands(b.base_fee)
        \o " Participant Fee: AED " \o format_thousands(b.participant_fee)
        \o " Duration Fee: AED " \o format_thousands(b.duration_fee)
        \o " Performer Fee: AED " \o format_thousands(b.performer_fee)
        \o " **Total: AED " \o format_thousands(estimated_fee) \o "**"

\* the counts of the record support the comparisons and arithmetic of the
\* breakdown; otherwise the except branch of the handler writes its message
summary_raises(event_data_dict) ==
    \/ ~IsNumeric(get(event_data_dict, "no_of_participants", PyInt(0)))
    \/ ~IsNumeric(get(event_data_dict, "no_of_days", PyInt(1)))
    \/ ~IsNumeric(get(event_data_dict, "no_of_performers", PyInt(0)))

\* Mutant: the summary stores the fee it shows in the record
summary_handled_stores_fee(s, r) ==
    reset_flag(
        IF summary_raises(s.event_data.val)
        THEN say([s EXCEPT !.fee = r.fee, !.st_error = @ \o r.st_error],
                 "Error generating fee summary. Please try again.", TRUE)
        ELSE say([s EXCEPT !.fee = r.fee, !.st_error = @ \o r.st_error,
                           !.event_data = set_item(@, "estimated_fee", r.fee)],
                 breakdown_message(summary_breakdown(s.event_data.val), r.fee), TRUE),
        "summary_clicked")

\* the handler, given what calculate_estimated_fees returned
summary_handled(s, r) ==
    reset_flag(
        IF summary_raises(s.event_data.val)
        THEN say([s EXCEPT !.fee = r.fee, !.st_error = @ \o r.st_error],
                 "Error generating fee summary. Please try again.", TRUE)
        ELSE say([s EXCEPT !.fee = r.fee, !.st_error = @ \o r.st_error],
                 breakdown_message(summary_breakdown(s.event_data.val), r.fee), TRUE),
        "summary_clicked")

on_summary_clicked(s) == summary_handled(s, calculate_estimated_fees(s.event_data))

\* The first flag that is set, in the order of the tests
first_clicked(flags) ==
    ClickFlags[CHOOSE i \in 1..Len(ClickFlags) :
                  /\ ClickFlags[i] \in flags
                  /\ \A j \in 1..(i - 1) : ClickFlags[j] \notin flags]

\* The session after handle_button_clicks has handled the first set flag
\* (it returns True); with no flag set it changes nothing and returns False
handle_button_clicks(s, outcome) ==
    IF "fee_calc_clicked" \in s.clicked THEN on_fee_calc_clicked(s)
    ELSE IF "requirements_clicked" \in s.clicked THEN on_requirements_clicked(s)
    ELSE IF "specialist_clicked" \in s.clicked THEN on_specialist_clicked(s)
    ELSE IF "general_clicked" \in s.clicked THEN on_general_clicked(s)
    ELSE IF "internal_clicked" \in s.clicked THEN on_internal_clicked(s)
    ELSE IF "external_clicked" \in s.clicked THEN on_external_clicked(s)
    ELSE IF "calc_internal_clicked" \in s.clicked THEN on_calc_internal_clicked(s)
    ELSE IF "paid_ticketed_clicked" \in s.clicked THEN on_paid_ticketed_clicked(s)
    ELSE IF "free_ticketed_clicked" \in s.clicked THEN on_free_ticketed_clicked(s)
    ELSE IF "non_ticketed_clicked" \in s.clicked THEN on_non_ticketed_clicked(s)
    ELSE IF "save_app_clicked" \in s.clicked THEN on_save_app_clicked(s, outcome)
    ELSE IF "new_calc_clicked" \in s.clicked THEN on_new_calc_clicked(s)
    ELSE IF "summary_clicked" \in s.clicked THEN on_summary_clicked(s)
    ELSE s

----------------------------------------------------------------------------
(* main: the greeting, the buttons, the event details form, the sidebar *)

\* "Show initial greeting" is due
greeting_due(s) == s.show_greeting /\ Len(s.chat_history) = 0

show_initial_greeting(s) ==
    [say(s, greeting_message, TRUE) EXCEPT !.show_greeting = FALSE]

\* the flags whose buttons main renders for a conversation step
rendered_buttons(step) ==
    IF step = "greeting"
    THEN {"fee_calc_clicked", "requirements_clicked", "specialist_clicked", "general_clicked"}
    ELSE IF step = "event_classification"
    THEN {"internal_clicked", "external_clicked"}
    ELSE IF step = "internal_event_info"
    THEN {"calc_internal_clicked"}
    ELSE IF step = "external_ticketing"
    THEN {"paid_ticketed_clicked", "free_ticketed_clicked", "non_ticketed_clicked"}
    ELSE IF step = "show_results"
    THEN {"save_app_clicked", "new_calc_clicked", "summary_clicked"}
    ELSE {}

\* the catalog the multiselect of the form offers
offered_event_types(event_data_dict) ==
    IF "ticketing_type" \in DOMAIN event_data_dict
       /\ event_data_dict["ticketing_type"] \in {"paid_ticketed", "free_ticketed"}
    THEN TICKETED_EVENT_TYPES
    ELSE NON_TICKETED_EVENT_TYPES

\* Mutant: the industry placeholder is not checked
validation_errors_industry_unchecked(f) ==
    (IF strip(f.event_name) = "" THEN <<"Event name is required">> ELSE <<>>)
    \o (IF f.event_types = <<>> THEN <<"Please select at least one event type">> ELSE <<>>)
    \o (IF f.venue = "Select a venue..." THEN <<"Please select a venue">> ELSE <<>>)
    \o (IF f.no_of_participants <= 0
        THEN <<"Number of participants must be greater than 0">> ELSE <<>>)
    \o (IF f.start_date > f.end_date THEN <<"End date must be after start date">> ELSE <<>>)

\* "Validate required fields"
validation_errors(f) ==
    (IF strip(f.event_name) = "" THEN <<"Event name is required">> ELSE <<>>)
    \o (IF f.event_types = <<>> THEN <<"Please select at least one event type">> ELSE <<>>)
    \o (IF f.venue = "Select a venue..." THEN <<"Please select a venue">> ELSE <<>>)
    \o (IF f.industry = "Select industry..." THEN <<"Please select an industry">> ELSE <<>>)
    \o (IF f.no_of_participants <= 0
        THEN <<"Number of participants must be greater than 0">> ELSE <<>>)
    \o (IF f.start_date > f.end_date THEN <<"End date must be after start date">> ELSE <<>>)

\* Mutant: the form also stores a request for urgent processing
form_fields_with_urgent(f) ==
    [ event_name |-> strip(f.event_name),
      event_types |-> PyList(f.event_types),
      venue |-> f.venue,
      industry |-> f.industry,
      no_of_days |-> PyInt(f.no_of_days),
      no_of_participants |-> PyInt(f.no_of_participants),
      no_of_performers |-> PyInt(f.no_of_performers),
      start_date |-> isoformat(f.start_date),
      end_date |-> isoformat(f.end_date),
      event_description |-> strip(f.event_description),
      is_urgent |-> TRUE ]

\* what event_data.update receives
form_fields(f) ==
    [ event_name |-> strip(f.event_name),
      event_types |-> PyList(f.event_types),
      venue |-> f.venue,
      industry |-> f.industry,
      no_of_days |-> PyInt(f.no_of_days),
      no_of_participants |-> PyInt(f.no_of_participants),
      no_of_performers |-> PyInt(f.no_of_performers),
      start_date |-> isoformat(f.start_date),
      end_date |-> isoformat(f.end_date),
      event_description |-> strip(f.event_description) ]

\* the f-string of the fee message, without its line breaks and indentation
fee_message(f, event_data_dict, estimated_fee) ==
    "**ESTIMATED GOVERNMENT FEES**"
        \o " Event: **" \o f.event_name \o "**"
        \o " Classification: **"
        \o title(IF "event_classification" \in DOMAIN event_data_dict
                 THEN event_data_dict["event_classification"] ELSE "Unknown") \o "**"
        \o " Participants: **" \o format_thousands(f.no_of_participants) \o "**"
        \o " Duration: **" \o ToString(f.no_of_days) \o " day(s)**"
        \o " **Estimated Total Fee: AED " \o format_thousands(estimated_fee) \o "**"

\* the fee message is written and the conversation moves on, given what
\* calculate_estimated_fees returned for the stored record
fees_shown(s, f, r) ==
    [say([s EXCEPT !.fee = r.fee, !.st_error = @ \o r.st_error],
         fee_message(f, s.event_data.val, r.fee), TRUE)
        EXCEPT !.conversation_step = "show_results"]

\* "Calculate and display fees immediately"
show_fees(s, f) == fees_shown(s, f, calculate_estimated_fees(s.event_data))

\* "Store event data" and the chat message of the user
store_event_data(s, f) ==
    say([s EXCEPT !.event_data = PyDict(form_fields(f) @@ @.val)],
        "Event Details Submitted: " \o f.event_name, FALSE)

\* The session after the form has been submitted with the widget values f
submit_event_details(s, f) ==
    IF validation_errors(f) # <<>>
    THEN [s EXCEPT !.st_error = @ \o validation_errors(f)]
    ELSE show_fees(store_event_data(s, f), f)

\* the sidebar is rendered for a non-empty record
sidebar_rendered(s) == DOMAIN s.event_data.val # {}

\* the "Clear Current Event" button of the sidebar
clear_event(s) ==
    [s EXCEPT !.event_data = PyDict(<<>>),
              !.conversation_step = "greeting",
              !.chat_history = <<>>,
              !.show_greeting = TRUE]

----------------------------------------------------------------------------
(* What the user can enter in the form *)

\* the event types a user picks from
PickedEventTypes == {"Conference", "Conference/Forum/Meeting/Summit", "DJ Event"}

\* no selection, or one of the picked types that the catalog offers
Selections(catalog) ==
    {<<>>} \cup {<<catalog[i]>> : i \in {j \in 1..Len(catalog) : catalog[j] \in PickedEventTypes}}

\* the text a user types as the name of the event
EventNames == {" ", "Expo "}

\* a form filled in completely, except perhaps for the event types; the
\* number inputs hold 1..30 days, 1..10000 participants and 0..100 performers,
\* and the end date is not before the start date
FilledForms(event_data_dict) ==
    [ event_name : {"Expo "},
      event_types : Selections(offered_event_types(event_data_dict)),
      venue : {DUBAI_VENUES[1]},
      industry : {INDUSTRIES[1]},
      no_of_days : {1, MaxDays},
      no_of_participants : {50, 150},
      no_of_performers : 0..MaxPerformers,
      start_date : {1},
      end_date : {2},
      event_description : {""} ]

\* a form with any of the required fields left as it was rendered, and the
\* number inputs at their defaults
SparseForms(event_data_dict) ==
    [ event_name : EventNames,
      event_types : Selections(offered_event_types(event_data_dict)),
      venue : {"Select a venue...", DUBAI_VENUES[1]},
      industry : {"Select industry...", INDUSTRIES[1]},
      no_of_days : {1},
      no_of_participants : {50},
      no_of_performers : {0},
      start_date : {1},
      end_date : {1},
      event_description : {""} ]

\* Mutant: the number input of the days starts at 0
FormInputs_days_from_zero(event_data_dict) ==
    FilledForms(event_data_dict) \cup SparseForms(event_data_dict)
        \cup {[f EXCEPT !.no_of_days = 0] : f \in FilledForms(event_data_dict)}

FormInputs(event_data_dict) ==
    FilledForms(event_data_dict) \cup SparseForms(event_data_dict)

----------------------------------------------------------------------------
(* The conversation of one session: one action per script run *)

Init ==
    /\ conversation_step = init_session_state.conversation_step
    /\ event_data = init_session_state.event_data
    /\ chat_history = init_session_state.chat_history
    /\ show_greeting = init_session_state.show_greeting
    /\ clicked = {}
    /\ form = None
    /\ connection = not_cached
    /\ db = <<>>
    /\ params = None
    /\ result = None
    /\ fee = None
    /\ st_error = <<>>
    /\ raised = "none"
    /\ pc = "session"
    /\ runs = 0
    /\ last_run = "none"

\* the session state, the cache and the collection become those of s
Install(s) ==
    /\ conversation_step' = s.conversation_step
    /\ event_data' = s.event_data
    /\ chat_history' = s.chat_history
    /\ show_greeting' = s.show_greeting
    /\ clicked' = s.clicked
    /\ connection' = s.connection
    /\ db' = s.db
    /\ st_error' = s.st_error
    /\ fee' = s.fee
    /\ runs' = runs + 1
    /\ UNCHANGED <<params, result, raised, pc>>

\* the last script run ended with the page rendered: its buttons can be used
page_rendered == clicked = {} /\ ~greeting_due(session) /\ runs < MaxRuns

\* a run that writes the greeting and reruns
ShowGreeting ==
    /\ greeting_due(session)
    /\ runs < MaxRuns
    /\ Install(show_initial_greeting(session))
    /\ last_run' = "greeting"
    /\ UNCHANGED form

\* the on_click callback of a rendered button sets its flag
Click(flag) ==
    /\ page_rendered
    /\ flag \in rendered_buttons(conversation_step)
    /\ clicked' = clicked \cup {flag}
    /\ UNCHANGED <<event_data, calc_vars, conversation_step, chat_history, show_greeting,
                   form, connection, db, runs, last_run>>

\* the run after a click: handle_button_clicks handles the flag and reruns
HandleButtonClicks ==
    /\ clicked # {}
    /\ \E outcome \in SaveOutcomes : Install(handle_button_clicks(session, outcome))
    /\ last_run' = first_clicked(clicked)
    /\ UNCHANGED form

\* the form is submitted: on errors the widgets keep what was entered, on
\* success the form is not rendered again
SubmitForm ==
    /\ page_rendered
    /\ conversation_step = "collect_event_details"
    /\ \E f \in FormInputs(event_data.val) :
          /\ Install(submit_event_details(session, f))
          /\ form' = IF validation_errors(f) # <<>> THEN f ELSE None
    /\ last_run' = "form"

\* the "Clear Current Event" button is pressed
ClearCurrentEvent ==
    /\ page_rendered
    /\ sidebar_rendered(session)
    /\ Install(clear_event(session))
    /\ form' = None
    /\ last_run' = "clear_event"

Next ==
    \/ ShowGreeting
    \/ \E i \in 1..Len(ClickFlags) : Click(ClickFlags[i])
    \/ HandleButtonClicks
    \/ SubmitForm
    \/ ClearCurrentEvent

Spec == Init /\ [][Next]_vars

----------------------------------------------------------------------------
(* Claims *)

\* C1: for every valid record, the values of cost_breakdown add up to
\* total_cost.
C1_BreakdownSumsToTotal ==
    Calculated =>
        LET cb == result.cost_breakdown
        IN  result.total_cost =
                cb.base_fee + cb.per_day_fee + cb.performer_fee + cb.e_permit_fee
                    + cb.knowledge_dirham + cb.innovation_dirham + cb.dtcm_management_fee
                    + cb.ded_fee + cb.urgent_fee + cb.amendment_fee

\* a business event with an award ceremony, several days, urgent, amended
C1_Witness ==
    /\ Calculated
    /\ params.event_type = "business" /\ params.has_award_ceremony
    /\ Days > 1 /\ Urgent /\ Amendment
    /\ result.total_cost > 0

\* C2: a ticketed one-day "Conference", neither urgent nor an amendment,
\* costs 1270.
C2_ConferenceTicketedOneDay ==
    (Calculated /\ EventTypesAre(<<"Conference">>) /\ Ticketed /\ Days = 1
        /\ ~Urgent /\ ~Amendment)
    => result.total_cost = 1270

C2_Witness ==
    /\ Calculated /\ EventTypesAre(<<"Conference">>) /\ Ticketed /\ Days = 1
    /\ ~Urgent /\ ~Amendment
    /\ result.cost_breakdown.base_fee = 1000

\* C3: a ticketed three-day "Award Ceremony" with urgent processing costs
\* 1520 + 500 + 800*2 = 3620.
C3_AwardCeremonyUrgentThreeDays ==
    (Calculated /\ EventTypesAre(<<"Award Ceremony">>) /\ Ticketed /\ Days = 3
        /\ Urgent /\ ~Amendment)
    => result.total_cost = 1520 + 500 + 800 * 2

\* C4 as stated: a non-ticketed five-day "DJ Event" without performers has no
\* extra-days charge and costs 1520.
C4_DJEventNoDayCharge ==
    (Calculated /\ EventTypesAre(<<"DJ Event">>) /\ ~Ticketed /\ Days = 5
        /\ Performers = 0 /\ ~Urgent /\ ~Amendment)
    => /\ result.cost_breakdown.per_day_fee = 0
       /\ result.total_cost = 1520

\* C4 amended: a non-ticketed five-day "DJ Event" without performers is
\* charged the venue day rate for each of its five days (4000 at a hotel,
\* 2500 elsewhere) and costs 5520 at a hotel and 3720 elsewhere.
C4_DJEventDayRate ==
    (Calculated /\ EventTypesAre(<<"DJ Event">>) /\ ~Ticketed /\ Days = 5
        /\ Performers = 0 /\ ~Urgent /\ ~Amendment)
    => IF AtHotel
       THEN result.cost_breakdown.per_day_fee = 4000 /\ result.total_cost = 5520
       ELSE result.cost_breakdown.per_day_fee = 2500 /\ result.total_cost = 3720

C4_Witness ==
    /\ Calculated /\ EventTypesAre(<<"DJ Event">>) /\ ~Ticketed /\ Days = 5
    /\ Performers = 0 /\ ~Urgent /\ ~Amendment
    /\ AtHotel

\* C5: without is_urgent the urgent fee is 0, and without is_amendment the
\* amendment fee is 0, whatever the other fields are.
C5_NoFlagNoFee ==
    Calculated =>
        /\ ~Urgent => result.cost_breakdown.urgent_fee = 0
        /\ ~Amendment => result.cost_breakdown.amendment_fee = 0

\* a non-ticketed record that is urgent but not an amendment
C5_Witness ==
    /\ Calculated /\ Urgent /\ ~Amendment /\ ~Ticketed
    /\ result.cost_breakdown.urgent_fee = 500

\* C6 as stated: a non-ticketed event never has an extra-days charge above 0.
C6_NonTicketedNoDayCharge ==
    (Calculated /\ ~Ticketed) => ~(result.cost_breakdown.per_day_fee > 0)

\* C6 amended: a non-ticketed event is charged per day as well: the venue day
\* rate (800 at a hotel, 500 elsewhere) for every day of an entertainment
\* event, and 800 for every day after the first of any other event; the
\* charge is 0 only for a one-day event that is not an entertainment event.
C6_NonTicketedDayCharge ==
    (Calculated /\ ~Ticketed) =>
        /\ result.cost_breakdown.per_day_fee =
              IF params.event_type = "entertainment"
              THEN (IF AtHotel THEN 800 ELSE 500) * Days
              ELSE 800 * (Days - 1)
        /\ result.cost_breakdown.per_day_fee = 0
              <=> (Days = 1 /\ params.event_type # "entertainment")

\* a non-ticketed business event of several days
C6_Witness ==
    /\ Calculated /\ ~Ticketed /\ Days > 1
    /\ params.event_type = "business"
    /\ result.cost_breakdown.per_day_fee > 0

\* C7: for a ticketed event, whose base fee includes IncludedDays days, the
\* extra-days component is 800 * max(0, no_of_days - IncludedDays).
C7_TicketedExtraDays ==
    (Calculated /\ Ticketed) =>
        result.cost_breakdown.per_day_fee = 800 * Max(0, Days - IncludedDays)

C7_Witness ==
    /\ Calculated /\ Ticketed /\ Days >= 3
    /\ result.cost_breakdown.per_day_fee = 800 * (Days - 1)

\* Every category is charged by the day: with the other fields held fixed,
\* one more day always raises total_cost.  No category has its total
\* independent of no_of_days (C8 is about such a category).
TotalGrowsWithDays ==
    Calculated =>
        calculate_event_permit_cost([params EXCEPT !.num_days = PyInt(Days + 1)]).total_cost
            > result.total_cost

\* the event-type selection matches no keyword of the mapping: it is left in
\* the default category with no exhibition, conference or award component
Unmatched(event_types_value) ==
    LET t == map_event_types(event_types_value)
    IN  /\ t.event_type = "business"
        /\ ~t.has_exhibition /\ ~t.has_conference /\ ~t.has_award_ceremony

UnmatchedRecord ==
    /\ Unmatched(Field("event_types", PyList(<<>>)))
    /\ Field("event_types", PyList(<<>>)) # PyList(<<>>)

\* total_cost of the same record with event type "Conference"
ConferenceTotal ==
    calculate_event_permit_cost(
        map_event_data_to_calculator_params(
            [k \in DOMAIN event_data.val |->
                IF k = "event_types" THEN PyList(<<"Conference">>) ELSE event_data.val[k]])
    ).total_cost

\* every note the calculator writes is about a fee component it added
IsComponentNote(note) == Len(note) >= 6 /\ SubSeq(note, 1, 6) = "Added "

HasFallbackNote ==
    \E i \in 1..Len(result.calculation_notes) : ~IsComponentNote(result.calculation_notes[i])

\* C9 as stated: an event type that matches no pricing entry is priced as a
\* "Conference", ticketed or not, and a note records the fallback.
C9_FallbackToConference ==
    (Calculated /\ UnmatchedRecord) =>
        /\ result.total_cost = ConferenceTotal
        /\ HasFallbackNote

\* C9 amended: an event type that matches no keyword falls back to the default
\* category "business" with the default base fee 1000 and no note records it;
\* for a ticketed record total_cost equals the total of the same record with
\* event type "Conference", for a non-ticketed record it is 750 more (a
\* non-ticketed conference has base fee 250).
C9_FallbackToBusinessDefault ==
    (Calculated /\ UnmatchedRecord) =>
        /\ params.event_type = "business"
        /\ result.cost_breakdown.base_fee = 1000
        /\ result.total_cost = ConferenceTotal + (IF Ticketed THEN 0 ELSE 750)
        /\ ~HasFallbackNote

\* a non-ticketed "Wedding" of several days, urgent
C9_Witness ==
    /\ Calculated /\ EventTypesAre(<<"Wedding">>) /\ ~Ticketed
    /\ Days > 1 /\ Urgent
    /\ Len(result.calculation_notes) >= 2

\* the record is not a mapping, or a count in it is not a number
Malformed ==
    \/ event_data.type # "dict"
    \/ ~IsNumeric(Field("no_of_days", PyInt(1)))
    \/ ~IsNumeric(Field("no_of_performers", PyInt(0)))

\* C10: calculate_estimated_fees on a malformed record raises nothing and
\* returns 0, with an error message shown to the user.
C10_MalformedGivesZero ==
    (pc = "estimated" /\ Malformed) =>
        /\ raised = "none"
        /\ fee = 0
        /\ Len(st_error) >= 1

\* event_data is not a mapping
C10_Witness ==
    /\ pc = "estimated"
    /\ event_data.type # "dict"
    /\ st_error = <<"Error calculating fees">>

----------------------------------------------------------------------------
(* Notes of the calculator *)

EndsWith(s, suffix) ==
    Len(s) >= Len(suffix) /\ SubSeq(s, Len(s) - Len(suffix) + 1, Len(s)) = suffix

HasNote(P(_)) ==
    \E i \in 1..Len(result.calculation_notes) : P(result.calculation_notes[i])

IsUrgentNote(note) == note = "Added 500 AED urgent processing fee"
IsAmendmentNote(note) == EndsWith(note, " AED amendment fee")
IsExtraDaysNote(note) == EndsWith(note, " additional day(s)")

\* a non-ticketed entertainment event: charged its day rate for every day
DayRateEvent == params.event_type = "entertainment" /\ ~params.is_ticketed

\* C12 as stated: the notes hold a note for each of the urgent, amendment and
\* per-day components that is non-zero in the breakdown, and no urgent or
\* amendment note when that component is 0.
C12_NoteForEachNonZeroComponent ==
    Calculated =>
        LET cb == result.cost_breakdown
        IN  /\ (cb.urgent_fee # 0) <=> HasNote(IsUrgentNote)
            /\ (cb.amendment_fee # 0) <=> HasNote(IsAmendmentNote)
            /\ (cb.per_day_fee # 0) => HasNote(IsExtraDaysNote)

\* C12, amended: the urgent and amendment notes are present exactly when
\* their component is non-zero; the additional-days note is present exactly
\* when the event lasts more than one day and is not a non-ticketed
\* entertainment event, whose per-day component is non-zero without a note.
C12_NotesExceptDayRateEvents ==
    Calculated =>
        LET cb == result.cost_breakdown
        IN  /\ (cb.urgent_fee # 0) <=> HasNote(IsUrgentNote)
            /\ (cb.amendment_fee # 0) <=> HasNote(IsAmendmentNote)
            /\ ~DayRateEvent => ((cb.per_day_fee # 0) <=> HasNote(IsExtraDaysNote))
            /\ DayRateEvent => (cb.per_day_fee # 0 /\ ~HasNote(IsExtraDaysNote))

\* a non-ticketed business event of several days, urgent and amended: all
\* three notes
C12_Witness ==
    /\ Calculated
    /\ params.event_type = "business" /\ ~params.is_ticketed
    /\ Days > 1 /\ Urgent /\ Amendment
    /\ HasNote(IsUrgentNote) /\ HasNote(IsAmendmentNote) /\ HasNote(IsExtraDaysNote)

----------------------------------------------------------------------------
(* The conversation: steps of a behaviour *)

\* this step is a script run that handled `what`: a click flag, "form",
\* "clear_event" or "greeting"
Ran(what) == runs' = runs + 1 /\ last_run' = what

\* the keys save_to_mongodb adds to a copy of the record, and insert_one's _id
AddedKeys == {"_id", "created_at", "estimated_fee", "fee_breakdown", "app_version"}

\* the event record a persisted document was made from
RecordOf(document) == [k \in DOMAIN document \ AddedKeys |-> document[k]]

\* the keys of the record whose value differs between the two records
WrittenFields(before, after) ==
    {k \in DOMAIN after : k \notin DOMAIN before \/ after[k] # before[k]}

\* the last message of the chat
LastMessage == chat_history[Len(chat_history)]

FlowEdges ==
    { <<"greeting", "event_classification">>,
      <<"event_classification", "internal_event_info">>,
      <<"event_classification", "external_ticketing">>,
      <<"internal_event_info", "collect_event_details">>,
      <<"external_ticketing", "collect_event_details">>,
      <<"collect_event_details", "show_results">>,
      <<"show_results", "greeting">> }

\* the steps in which the record is not empty, so that the sidebar offers
\* "Clear Current Event"
StepsWithRecord ==
    {"internal_event_info", "external_ticketing", "collect_event_details", "show_results"}

\* C13 as stated: conversation_step changes only along the edges of the
\* flow, restart from show_results to greeting included.
C13_OnlyFlowEdges ==
    [][conversation_step' # conversation_step =>
          <<conversation_step, conversation_step'>> \in FlowEdges]_vars

\* C13, amended: conversation_step changes only along the edges of the flow,
\* or back to greeting by "Clear Current Event" from any step in which the
\* record is not empty; show_results is entered from collect_event_details
\* only.
C13_FlowEdgesOrClear ==
    [][conversation_step' # conversation_step =>
          \/ /\ <<conversation_step, conversation_step'>> \in FlowEdges
             /\ ~Ran("clear_event")
          \/ /\ Ran("clear_event")
             /\ conversation_step \in StepsWithRecord
             /\ conversation_step' = "greeting"]_vars

\* "Clear Current Event" pressed right after the classification
C13_Witness ==
    /\ last_run = "clear_event"
    /\ runs = 4
    /\ conversation_step = "greeting"
    /\ event_data = PyDict(<<>>)

\* the selections that move the conversation on
DiscreteSelections ==
    {"fee_calc_clicked", "internal_clicked", "external_clicked", "calc_internal_clicked",
     "paid_ticketed_clicked", "free_ticketed_clicked", "non_ticketed_clicked"}

\* this step advances the conversation by one edge of the flow and keeps
\* every field the record had
AdvancesOneState ==
    /\ <<conversation_step, conversation_step'>> \in FlowEdges
    /\ DOMAIN event_data.val \subseteq DOMAIN event_data'.val

\* C14 as stated: every selection writes exactly one field of the record,
\* leaves the other fields unchanged and advances by one state.
C14_ExactlyOneField ==
    [][\A flag \in DiscreteSelections :
          Ran(flag) =>
              /\ AdvancesOneState
              /\ Cardinality(WrittenFields(event_data.val, event_data'.val)) = 1]_vars

\* the field a selection writes, if any
FieldWrittenBy(flag) ==
    IF flag \in {"internal_clicked", "external_clicked"} THEN {"event_classification"}
    ELSE IF flag \in {"paid_ticketed_clicked", "free_ticketed_clicked", "non_ticketed_clicked"}
    THEN {"ticketing_type"}
    ELSE {}

\* C14, amended: every selection advances by one state and leaves the fields
\* it does not write unchanged; internal/external write event_classification,
\* paid/free/non-ticketed write ticketing_type, and "start fee calculator"
\* and "calculate internal fees" write no field at all.
C14_AtMostOneField ==
    [][\A flag \in DiscreteSelections :
          Ran(flag) =>
              /\ AdvancesOneState
              /\ WrittenFields(event_data.val, event_data'.val) = FieldWrittenBy(flag)]_vars

\* "calculate internal fees" has moved on to the form and written nothing
C14_Witness ==
    /\ last_run = "calc_internal_clicked"
    /\ conversation_step = "collect_event_details"
    /\ DOMAIN event_data.val = {"event_classification"}

\* the elements of a list
Elements(l) == {l[i] : i \in 1..Len(l)}

\* the keys the form writes
FormFieldNames ==
    {"event_name", "event_types", "venue", "industry", "no_of_days",
     "no_of_participants", "no_of_performers", "start_date", "end_date",
     "event_description"}

\* the day of an ISO date of the month (built once)
fromisoformat == [s \in {isoformat(d) : d \in 1..31} |->
                     CHOOSE d \in 1..31 : isoformat(d) = s] @@ <<>>

\* the record holds the fields of the form with valid values
HoldsValidFields ==
    LET r == event_data.val
    IN  /\ FormFieldNames \subseteq DOMAIN r
        /\ r["event_name"] # "" /\ strip(r["event_name"]) = r["event_name"]
        /\ r["event_types"].type = "list" /\ Len(r["event_types"].val) >= 1
        /\ r["venue"] \in Elements(DUBAI_VENUES)
        /\ r["industry"] \in Elements(INDUSTRIES)
        /\ r["no_of_participants"].type = "int" /\ r["no_of_participants"].val >= 1
        /\ r["start_date"] \in DOMAIN fromisoformat
        /\ r["end_date"] \in DOMAIN fromisoformat
        /\ fromisoformat[r["start_date"]] <= fromisoformat[r["end_date"]]

\* the checks of the form that the widget values f fail
FailedChecks(f) ==
    {c \in {"name", "event type", "venue", "industry", "participants", "dates"} :
        \/ c = "name" /\ f.event_name \in {"", " "}
        \/ c = "event type" /\ Len(f.event_types) = 0
        \/ c = "venue" /\ f.venue \notin Elements(DUBAI_VENUES)
        \/ c = "industry" /\ f.industry \notin Elements(INDUSTRIES)
        \/ c = "participants" /\ f.no_of_participants < 1
        \/ c = "dates" /\ f.end_date < f.start_date}

\* C15: a submission of the form moves from collect_event_details to
\* show_results only when no check fails; when a check fails the step, the
\* record and the chat stay as they were and one error is shown for each
\* failed check.  In show_results the record holds valid fields.
C15_FormGate ==
    /\ [](conversation_step = "show_results" => HoldsValidFields)
    /\ [][Ran("form") =>
            /\ conversation_step = "collect_event_details"
            /\ IF form' = None
               THEN /\ conversation_step' = "show_results"
                    /\ st_error' = <<>>
               ELSE /\ FailedChecks(form') # {}
                    /\ Len(st_error') = Cardinality(FailedChecks(form'))
                    /\ conversation_step' = conversation_step
                    /\ event_data' = event_data
                    /\ chat_history' = chat_history]_vars

\* a submission that failed two checks
C15_Witness ==
    /\ last_run = "form"
    /\ conversation_step = "collect_event_details"
    /\ form # None
    /\ Len(st_error) = 2

\* C16: right after "Calculate Another Event" the record is empty, the chat
\* is empty and the conversation is at greeting.
C16_RestartClearsRecordAndChat ==
    last_run = "new_calc_clicked" =>
        /\ event_data = PyDict(<<>>)
        /\ conversation_step = "greeting"
        /\ chat_history = <<>>

\* C17: "View Summary" shows the fee the calculator returns for the current
\* record and leaves the record and the conversation step as they were.
C17_SummaryKeepsState ==
    [][Ran("summary_clicked") =>
          /\ event_data' = event_data
          /\ conversation_step' = conversation_step
          /\ fee' = calculate_event_permit_cost(
                        map_event_data_to_calculator_params(event_data.val)).total_cost
          /\ chat_history'[Len(chat_history')].message =
                breakdown_message(summary_breakdown(event_data.val), fee')]_vars

\* the summary of a record has been shown
C17_Witness ==
    /\ last_run = "summary_clicked"
    /\ conversation_step = "show_results"
    /\ HoldsValidFields
    /\ LastMessage.is_bot
    /\ fee >= 1000

ResultActions == {"save_app_clicked", "new_calc_clicked", "summary_clicked"}

\* C18 as stated: a show_results action performed right after itself leaves
\* the record, the step, the chat and the persisted documents as the first
\* performance left them.
C18_ResultActionsIdempotent ==
    [][\A action \in ResultActions :
          (last_run = action /\ Ran(action)) =>
              /\ event_data' = event_data
              /\ conversation_step' = conversation_step
              /\ chat_history' = chat_history
              /\ db' = db]_vars

\* C18, amended: save and View Summary keep the record and the step however
\* often they are performed, but each performance adds one message to the
\* chat and each successful save adds one more document; restart is never
\* performed twice in succession, since it leaves show_results.
C18_RepeatedResultActions ==
    [][/\ (Ran("save_app_clicked") \/ Ran("summary_clicked")) =>
              /\ event_data' = event_data
              /\ conversation_step' = conversation_step
              /\ Len(chat_history') = Len(chat_history) + 1
       /\ Ran("summary_clicked") => db' = db
       /\ Ran("save_app_clicked") =>
              IF st_error' = <<>>
              THEN /\ Len(db') = Len(db) + 1
                   /\ SubSeq(db', 1, Len(db)) = db
                   /\ RecordOf(db'[Len(db')]) = event_data.val
              ELSE db' = db
       /\ Ran("new_calc_clicked") => last_run # "new_calc_clicked"]_vars

\* the same record has been saved twice in succession: two documents
C18_Witness ==
    /\ last_run = "save_app_clicked"
    /\ Len(db) = 2
    /\ RecordOf(db[1]) = RecordOf(db[2])
    /\ db[1]["_id"] # db[2]["_id"]
    /\ Len(chat_history) = 10

\* C19: a save that fails raises nothing, adds exactly one message, the
\* failure message, to the chat, keeps the step at show_results and the
\* record and the collection as they were, and leaves the three buttons of
\* show_results rendered.
C19_FailedSaveIsNotFatal ==
    [][(Ran("save_app_clicked") /\ st_error' # <<>>) =>
          /\ raised' = "none"
          /\ chat_history' = Append(chat_history,
                 [message |-> "Failed to save application. Please try again.",
                  is_bot |-> TRUE])
          /\ conversation_step = "show_results"
          /\ conversation_step' = "show_results"
          /\ event_data' = event_data
          /\ db' = db
          /\ clicked' = {}
          /\ ResultActions \subseteq rendered_buttons(conversation_step')]_vars

\* a save without a database connection
C19_Witness ==
    /\ last_run = "save_app_clicked"
    /\ connection.cached /\ connection.value = "None"
    /\ Len(st_error) = 2
    /\ conversation_step = "show_results"
    /\ db = <<>>

\* C20: the components of the breakdown that View Summary shows add up to
\* the total it shows, which is the total_cost of the calculator.
C20_SummaryReconciles ==
    last_run = "summary_clicked" =>
        LET b == summary_breakdown(event_data.val)
        IN  /\ LastMessage.message = breakdown_message(b, fee)
            /\ fee = calculate_event_permit_cost(
                         map_event_data_to_calculator_params(event_data.val)).total_cost
            /\ b.base_fee + b.participant_fee + b.duration_fee + b.performer_fee = fee

----------------------------------------------------------------------------
(* The saved document *)

StartsWith(s, prefix) == Len(s) >= Len(prefix) /\ SubSeq(s, 1, Len(prefix)) = prefix

IsFeeMessage(entry) == entry.is_bot /\ StartsWith(entry.message, "**ESTIMATED GOVERNMENT FEES**")

\* the fee message that the last form submission wrote to the chat shows
\* this amount
FeeShown(amount) ==
    \E i \in 1..Len(chat_history) :
        /\ IsFeeMessage(chat_history[i])
        /\ \A j \in (i + 1)..Len(chat_history) : ~IsFeeMessage(chat_history[j])
        /\ EndsWith(chat_history[i].message,
                    " **Estimated Total Fee: AED " \o format_thousands(amount) \o "**")

\* C21: on every successful save the persisted document is the event record
\* of the session plus _id, created_at, estimated_fee, fee_breakdown and
\* app_version "1.1"; its estimated_fee is the total_cost the calculator
\* returns for the record, which is the fee the fee message showed; its
\* fee_breakdown adds up to estimated_fee; and the record of the session is
\* left as it was, without the added fields.
C21_SavedDocumentHoldsShownFee ==
    [][(Ran("save_app_clicked") /\ db' # db) =>
          /\ Len(db') = Len(db) + 1
          /\ DOMAIN db'[Len(db')] = DOMAIN event_data.val \cup AddedKeys
          /\ RecordOf(db'[Len(db')]) = event_data.val
          /\ db'[Len(db')]["app_version"] = "1.1"
          /\ db'[Len(db')]["estimated_fee"] =
                calculate_event_permit_cost(
                    map_event_data_to_calculator_params(event_data.val)).total_cost
          /\ FeeShown(db'[Len(db')]["estimated_fee"])
          /\ sum_values(db'[Len(db')]["fee_breakdown"]) = db'[Len(db')]["estimated_fee"]
          /\ event_data' = event_data
          /\ DOMAIN event_data'.val \cap AddedKeys = {}]_vars

\* a ticketed one-day conference has been saved
C21_Witness ==
    /\ last_run = "save_app_clicked"
    /\ Len(db) = 1
    /\ db[1]["estimated_fee"] = 1270
    /\ FeeShown(1270)
    /\ DOMAIN event_data.val \cap AddedKeys = {}
    /\ event_data.val["ticketing_type"] = "paid_ticketed"

----------------------------------------------------------------------------
(* The counts that reach the calculator *)

\* this step is a script run that calls the calculator: an accepted form
\* submission, a save or View Summary
CallsCalculator ==
    \/ Ran("form") /\ form' = None
    \/ Ran("save_app_clicked")
    \/ Ran("summary_clicked")

\* a count of the record, if it is stored, is a number of at least 1
StoredAtLeastOne(record, key) ==
    key \in DOMAIN record => (record[key].type = "int" /\ record[key].val >= 1)

----------------------------------------------------------------------------
(* Classification and ticketing type *)

\* the steps in which the event is classified already and its ticketing
\* type, if it needs one, is chosen
StepsAfterTicketing == {"collect_event_details", "show_results"}

\* a record, of the session or of a saved document, holds a ticketing type
\* only as an external event
TicketingOnlyIfExternal(record) ==
    /\ ("event_classification" \in DOMAIN record /\ record["event_classification"] = "internal")
          => /\ "ticketing_type" \notin DOMAIN record
             /\ ~map_event_data_to_calculator_params(record).is_ticketed
    /\ "ticketing_type" \in DOMAIN record
          => /\ "event_classification" \in DOMAIN record
             /\ record["event_classification"] = "external"
             /\ record["ticketing_type"] \in TicketingTypes

----------------------------------------------------------------------------
(* The click flags *)

\* handle_button_clicks, called with these flags set in the current session,
\* does what it does for the first of them alone and resets that flag only;
\* with no flag set it returns the session as it is
HandlesFirstFlagOnly(flags, outcome) ==
    IF flags = {}
    THEN handle_button_clicks([session EXCEPT !.clicked = {}], outcome)
            = [session EXCEPT !.clicked = {}]
    ELSE handle_button_clicks([session EXCEPT !.clicked = flags], outcome)
            = [handle_button_clicks([session EXCEPT !.clicked = {first_clicked(flags)}],
                                    outcome)
                 EXCEPT !.clicked = flags \ {first_clicked(flags)}]

\* a save that succeeds and a save without a connection
SavedOrNotConnected ==
    { [connect |-> "connected", insert |-> "inserted"],
      [connect |-> "ConnectionFailure", insert |-> "inserted"] }

\* two or more of the flags
SeveralFlags(flags) == {some \in SUBSET flags : Cardinality(some) >= 2}

\* C24: handle_button_clicks handles the first set flag in its order and no
\* other, resets that flag, and changes nothing when no flag is set, for any
\* two or more of the flags whose buttons the page shows; in the conversation at most
\* one flag is set at a time, the step that follows a click is the run that
\* handles it, a flag is handled only when it is set, and after that run no
\* flag is set.
C24_FlagsConsumedOnce ==
    /\ [](/\ Cardinality(clicked) <= 1
          /\ \A outcome \in SaveOutcomes : HandlesFirstFlagOnly({}, outcome)
          /\ \A flags \in SeveralFlags(rendered_buttons(conversation_step)) :
                \A outcome \in SavedOrNotConnected : HandlesFirstFlagOnly(flags, outcome))
    /\ [][clicked # {} =>
             /\ Ran(first_clicked(clicked))
             /\ clicked' = {}]_vars
    /\ [][\A i \in 1..Len(ClickFlags) :
             Ran(ClickFlags[i]) => clicked = {ClickFlags[i]}]_vars

\* "General Questions" has been clicked and handled once
C24_Witness ==
    /\ last_run = "general_clicked"
    /\ runs = 2
    /\ clicked = {}
    /\ Len(chat_history) = 3
    /\ chat_history[3].message = general_message

----------------------------------------------------------------------------
(* The two copies of the calculator *)

\* C25: for every record, map_event_data_to_calculator_params of
\* calculator.py returns the parameters that the function of app.py returns,
\* and for every parameter dict with numeric counts
\* calculate_event_permit_cost of calculator.py returns the total, the
\* breakdown and the notes that the function of app.py returns.
C25_CopiesAgree ==
    /\ pc \in {"mapped", "calculated"} =>
          calculator_map_event_data_to_calculator_params(event_data.val) = params
    /\ Calculated =>
          calculator_calculate_event_permit_cost(params) = result

\* both copies on a non-ticketed award ceremony with conference and
\* exhibition, several days, urgent and amended
C25_Witness ==
    /\ Calculated
    /\ params.has_award_ceremony /\ params.has_conference /\ params.has_exhibition
    /\ ~params.is_ticketed /\ params.venue_type = "other"
    /\ Days > 1 /\ Urgent /\ Amendment
    /\ calculator_calculate_event_permit_cost(params).total_cost = result.total_cost
    /\ Len(result.calculation_notes) = 3

----------------------------------------------------------------------------
(* The amendment fee *)

\* C26: the amendment fee of an amended record is 800 for a ticketed event
\* and 520 for a non-ticketed event, and 0 for a record that is not amended,
\* in both copies of the calculator.
C26_AmendmentFeeByTicketing ==
    Calculated =>
        /\ result.cost_breakdown.amendment_fee =
              IF params.is_amendment
              THEN (IF params.is_ticketed THEN 800 ELSE 520)
              ELSE 0
        /\ calculator_calculate_event_permit_cost(params).cost_breakdown.amendment_fee =
              result.cost_breakdown.amendment_fee

----------------------------------------------------------------------------
(* Urgent processing and amendments in the conversation *)

SurchargeKeys == {"is_urgent", "is_amendment"}

\* a result of the calculator without urgent and amendment fee, whose total
\* is the amount given
NoSurcharge(fee_result, amount) ==
    /\ fee_result.cost_breakdown.urgent_fee = 0
    /\ fee_result.cost_breakdown.amendment_fee = 0
    /\ fee_result.total_cost = amount

\* C27: in every state of the conversation the event record holds neither
\* is_urgent nor is_amendment; the fee shown in show_results is the total of
\* a calculation with urgent_fee = 0 and amendment_fee = 0, and so is the
\* estimated_fee of every saved document, whose fee_breakdown has both at 0.
C27_NeverUrgentNorAmendment ==
    /\ SurchargeKeys \cap DOMAIN event_data.val = {}
    /\ conversation_step = "show_results" =>
          NoSurcharge(calculate_event_permit_cost(
                          map_event_data_to_calculator_params(event_data.val)), fee)
    /\ \A i \in 1..Len(db) :
          /\ SurchargeKeys \cap DOMAIN db[i] = {}
          /\ db[i]["fee_breakdown"].urgent_fee = 0
          /\ db[i]["fee_breakdown"].amendment_fee = 0
          /\ NoSurcharge(calculate_event_permit_cost(
                             map_event_data_to_calculator_params(RecordOf(db[i]))),
                         db[i]["estimated_fee"])

\* an internal DJ event of several days has been saved
C27_Witness ==
    /\ last_run = "save_app_clicked"
    /\ Len(db) = 1
    /\ db[1]["event_types"] = PyList(<<"DJ Event">>)
    /\ db[1]["no_of_days"] = PyInt(MaxDays)
    /\ db[1]["fee_breakdown"].urgent_fee = 0
    /\ db[1]["estimated_fee"] = fee
    /\ conversation_step = "show_results"

----------------------------------------------------------------------------
(* The category of a catalog selection *)

\* the entries of the two catalogs
CatalogEntries ==
    {TICKETED_EVENT_TYPES[i] : i \in 1..Len(TICKETED_EVENT_TYPES)}
        \cup {NON_TICKETED_EVENT_TYPES[i] : i \in 1..Len(NON_TICKETED_EVENT_TYPES)}

EntertainmentEntries == {"DJ Event", "Musical Event", "Comedy Show"}

\* the record holds a non-empty list of catalog entries
CatalogSelection ==
    /\ event_data.type = "dict"
    /\ Field("event_types", PyList(<<>>)).type = "list"
    /\ Field("event_types", PyList(<<>>)).val # <<>>
    /\ \A i \in 1..Len(Field("event_types", PyList(<<>>)).val) :
          Field("event_types", PyList(<<>>)).val[i] \in CatalogEntries

\* the selection of the record holds an entertainment entry
SelectsEntertainment ==
    \E i \in 1..Len(Field("event_types", PyList(<<>>)).val) :
        Field("event_types", PyList(<<>>)).val[i] \in EntertainmentEntries

\* total_cost for the parameters of the record with these three flags
TotalWithFlags(exhibition, conference, award) ==
    calculate_event_permit_cost(
        [params EXCEPT !.has_exhibition = exhibition,
                       !.has_conference = conference,
                       !.has_award_ceremony = award]).total_cost

\* C28: a non-empty selection of catalog entries is mapped to entertainment
\* if it holds "DJ Event", "Musical Event" or "Comedy Show" and to business
\* otherwise, never to sports_charity; and the total of a selection that
\* holds an entertainment entry is the same whatever the exhibition,
\* conference and award flags are.
C28_CatalogCategory ==
    /\ (pc \in {"mapped", "calculated"} /\ CatalogSelection) =>
          params.event_type = IF SelectsEntertainment THEN "entertainment" ELSE "business"
    /\ (Calculated /\ CatalogSelection /\ SelectsEntertainment) =>
          \A exhibition, conference, award \in BOOLEAN :
              TotalWithFlags(exhibition, conference, award) = result.total_cost

\* "DJ Event" selected together with an award ceremony with conference and
\* exhibition
C28_Witness ==
    /\ Calculated
    /\ EventTypesAre(<<"Award Ceremony + Conference + Exhibition", "DJ Event">>)
    /\ params.event_type = "entertainment"
    /\ params.has_award_ceremony /\ params.has_conference /\ params.has_exhibition
    /\ ~Ticketed /\ Performers = 1
    /\ result.total_cost = TotalWithFlags(FALSE, FALSE, FALSE)

----------------------------------------------------------------------------
(* The day rate of a non-ticketed entertainment event *)

\* 800 a day at a hotel venue, 500 elsewhere
DayRate == IF params.venue_type = "hotel" THEN 800 ELSE 500

\* C29: for a non-ticketed entertainment event the venue day rate is charged
\* once for each day, base_fee + per_day_fee = rate * num_days, and
\* performer_fee is 750 a performer at a hotel venue and 350 elsewhere.
C29_DayRateOncePerDay ==
    (Calculated /\ DayRateEvent) =>
        /\ result.cost_breakdown.base_fee + result.cost_breakdown.per_day_fee
              = DayRate * params.num_days.val
        /\ result.cost_breakdown.performer_fee =
              (IF params.venue_type = "hotel" THEN 750 ELSE 350) * params.num_performers.val

----------------------------------------------------------------------------
(* The packages of a business event with an award ceremony *)

\* the price of the package for the combination of the parameters
PackagePrice ==
    IF params.is_ticketed
    THEN (IF params.has_conference /\ params.has_exhibition THEN 3070
          ELSE IF params.has_conference THEN 2570
          ELSE 1520)
    ELSE IF params.venue_type = "hotel"
    THEN (IF params.has_conference /\ params.has_exhibition THEN 3820
          ELSE IF params.has_conference THEN 2790
          ELSE 2270)
    ELSE (IF params.has_conference /\ params.has_exhibition THEN 2090
          ELSE IF params.has_conference THEN 2090
          ELSE 1570)

\* C30: for a business event with an award ceremony, base_fee, performer_fee,
\* e_permit_fee, knowledge_dirham and innovation_dirham add up to the price
\* of the package of its combination.
C30_AwardPackagePrice ==
    (Calculated /\ params.event_type = "business" /\ params.has_award_ceremony) =>
        result.cost_breakdown.base_fee + result.cost_breakdown.performer_fee
            + result.cost_breakdown.e_permit_fee + result.cost_breakdown.knowledge_dirham
            + result.cost_breakdown.innovation_dirham
          = PackagePrice
============================================================================
